---- MODULE Spec2Model ----
(***************************************************************************)
(* InvoiceVision: the response parser and the normalizer                   *)
(* (utils/data_parser.py), the invoice data model and its validation       *)
(* (models/invoice_model.py), the display of amounts (ui/components.py)    *)
(* and the session that stores the current record                          *)
(* (utils/image_processor.py, main.py).                                    *)
(*                                                                         *)
(* Python values are tagged records [t |-> tag, v |-> payload]:            *)
(*   str   a sequence of one-character strings                             *)
(*   num   an integer          bool  a BOOLEAN          null  None         *)
(*   map   a dict: a function from keys (character sequences) to values    *)
(*   list  a sequence of values                                            *)
(*   VendorInfo / BillingInfo / LineItem   dataclass instances             *)
(* The outcome of a call is [exc |-> "" or the exception's class,          *)
(* ui |-> "" or the streamlit call made ("warning", "error"),              *)
(* val |-> the returned value].                                            *)
(***************************************************************************)
EXTENDS Integers, Sequences, FiniteSets, TLC

VARIABLES
    extracted_data,        \* st.session_state.extracted_data, Unset when the attribute is missing
    processing_complete,   \* st.session_state.processing_complete
    op,                    \* the operation that ran last
    arg,                   \* its input
    ret                    \* its outcome

vars == <<extracted_data, processing_complete, op, arg, ret>>

----------------------------------------------------------------------------
(* Python values *)

Str(s)  == [t |-> "str",  v |-> s]
Num(n)  == [t |-> "num",  v |-> n]
Bool(b) == [t |-> "bool", v |-> b]
Null    == [t |-> "null", v |-> 0]
Map(f)  == [t |-> "map",  v |-> f]
List(q) == [t |-> "list", v |-> q]
Obj(cls, fields) == [t |-> cls, v |-> fields]
Unset   == [t |-> "unset", v |-> 0]

EmptyStr  == Str(<<>>)
EmptyMap  == Map(<<>>)
EmptyList == List(<<>>)

IsMap(x) == x.t = "map"

\* bool(x)
Truthy(x) ==
    CASE x.t = "str"  -> x.v # <<>>
      [] x.t = "num"  -> x.v # 0
      [] x.t = "bool" -> x.v
      [] x.t = "null" -> FALSE
      [] x.t = "map"  -> DOMAIN x.v # {}
      [] x.t = "list" -> Len(x.v) > 0
      [] OTHER        -> TRUE    \* a dataclass instance defines neither __bool__ nor __len__

\* d.get(k, default) on a dict
Get(d, k, default) == IF k \in DOMAIN d.v THEN d.v[k] ELSE default

\* outcomes
Ok(x)    == [exc |-> "", ui |-> "", val |-> x]
Raise(e) == [exc |-> e,  ui |-> "", val |-> Null]
Raised(r) == r.exc # ""
\* a value returned after st.warning / st.error was called
Signalled(kind, x) == [exc |-> "", ui |-> kind, val |-> x]

----------------------------------------------------------------------------
(* Characters and text *)

Whitespace == {" ", "\t", "\n", "\r"}
Digit      == {"0", "1", "2", "3", "4", "5", "6", "7", "8", "9"}

RECURSIVE Cat(_)
\* "".join(parts)
Cat(parts) == IF parts = <<>> THEN <<>> ELSE Head(parts) \o Cat(Tail(parts))

Has(s, c) == \E i \in 1..Len(s) : s[i] = c

\* the number of positions of s holding c
CountOf(s, c) == Cardinality({i \in 1..Len(s) : s[i] = c})

\* the keys of the invoice map
k_invoice_number == <<"i","n","v","o","i","c","e","_","n","u","m","b","e","r">>
k_invoice_date   == <<"i","n","v","o","i","c","e","_","d","a","t","e">>
k_due_date       == <<"d","u","e","_","d","a","t","e">>
k_currency       == <<"c","u","r","r","e","n","c","y">>
k_subtotal       == <<"s","u","b","t","o","t","a","l">>
k_tax_amount     == <<"t","a","x","_","a","m","o","u","n","t">>
k_tax_rate       == <<"t","a","x","_","r","a","t","e">>
k_total_amount   == <<"t","o","t","a","l","_","a","m","o","u","n","t">>
k_vendor         == <<"v","e","n","d","o","r">>
k_billing_to     == <<"b","i","l","l","i","n","g","_","t","o">>
k_line_items     == <<"l","i","n","e","_","i","t","e","m","s">>
k_metadata       == <<"_","m","e","t","a","d","a","t","a">>
k_name           == <<"n","a","m","e">>
k_address        == <<"a","d","d","r","e","s","s">>
k_phone          == <<"p","h","o","n","e">>
k_email          == <<"e","m","a","i","l">>
k_description    == <<"d","e","s","c","r","i","p","t","i","o","n">>
k_quantity       == <<"q","u","a","n","t","i","t","y">>
k_unit_price     == <<"u","n","i","t","_","p","r","i","c","e">>
k_total          == <<"t","o","t","a","l">>
k_raw_response   == <<"r","a","w","_","r","e","s","p","o","n","s","e">>
k_extraction_confidence ==
    <<"e","x","t","r","a","c","t","i","o","n","_","c","o","n","f","i","d","e","n","c","e">>
k_processing_time == <<"p","r","o","c","e","s","s","i","n","g","_","t","i","m","e">>
k_choices        == <<"c","h","o","i","c","e","s">>
k_message        == <<"m","e","s","s","a","g","e">>
k_content        == <<"c","o","n","t","e","n","t">>

RECURSIVE DigitsOf(_)
\* the decimal digits of n >= 0
DigitsOf(n) ==
    LET d == <<"0", "1", "2", "3", "4", "5", "6", "7", "8", "9">>[(n % 10) + 1]
    IN IF n < 10 THEN <<d>> ELSE DigitsOf(n \div 10) \o <<d>>

\* str(value), for the values the inputs place in scalar fields
PyStr(x) ==
    CASE x.t = "str"  -> x.v
      [] x.t = "num"  -> IF x.v < 0 THEN <<"-">> \o DigitsOf(-x.v) ELSE DigitsOf(x.v)
      [] x.t = "bool" -> IF x.v THEN <<"T","r","u","e">> ELSE <<"F","a","l","s","e">>
      [] x.t = "null" -> <<"N","o","n","e">>
      [] x.t = "map"  /\ DOMAIN x.v = {} -> <<"{", "}">>
      [] x.t = "list" /\ x.v = <<>>      -> <<"[", "]">>

----------------------------------------------------------------------------
(* Normalizer: utils/data_parser.py *)

RECURSIVE LStrip(_)
LStrip(s) == IF s # <<>> /\ Head(s) \in Whitespace THEN LStrip(Tail(s)) ELSE s

RECURSIVE RStrip(_)
RStrip(s) ==
    IF s # <<>> /\ s[Len(s)] \in Whitespace THEN RStrip(SubSeq(s, 1, Len(s) - 1)) ELSE s

\* str.strip()
Strip(s) == RStrip(LStrip(s))

RECURSIVE CollapseWs(_)
\* re.sub(r'\s+', ' ', s)
CollapseWs(s) ==
    IF s = <<>> THEN <<>>
    ELSE IF Head(s) \in Whitespace
         THEN <<" ">> \o CollapseWs(LStrip(s))
         ELSE <<Head(s)>> \o CollapseWs(Tail(s))

\* a faulty variant: runs are collapsed but the ends are not stripped
clean_string_unstripped(value) ==
    IF value.t = "null" THEN <<>>
    ELSE CollapseWs(PyStr(value))

clean_string(value) ==
    IF value.t = "null" THEN <<>>
    ELSE CollapseWs(Strip(PyStr(value)))

\* re.sub(r'[^\d.,]', '', s)
KeepDigitsSeps(s) == SelectSeq(s, LAMBDA c : c \in Digit \cup {".", ","})

\* s.replace(old, new) for one-character old and a new of length 0 or 1
Replace(s, old, new) ==
    Cat([i \in 1..Len(s) |-> IF s[i] = old THEN new ELSE <<s[i]>>])

RECURSIVE AfterLast(_, _)
\* s.split(c)[-1]
AfterLast(s, c) ==
    IF ~Has(s, c) THEN s
    ELSE AfterLast(Tail(s), c)

\* s with its last occurrence of c replaced by new
ReplaceLast(s, c, new) ==
    LET last == CHOOSE i \in 1..Len(s) : s[i] = c /\ \A j \in (i + 1)..Len(s) : s[j] # c
    IN SubSeq(s, 1, last - 1) \o new \o SubSeq(s, last + 1, Len(s))

\* a faulty variant: a decimal comma is replaced, the commas before it stay
clean_currency_last_comma(value) ==
    IF value.t = "null" THEN <<>>
    ELSE LET cleaned == KeepDigitsSeps(Strip(PyStr(value)))
         IN IF Has(cleaned, ",") /\ Has(cleaned, ".")
            THEN Replace(cleaned, ",", <<>>)
            ELSE IF Has(cleaned, ",") /\ ~Has(cleaned, ".")
                 THEN IF Len(AfterLast(cleaned, ",")) <= 2
                      THEN ReplaceLast(cleaned, ",", <<".">>)
                      ELSE Replace(cleaned, ",", <<>>)
                 ELSE cleaned

\* a faulty variant: a group of two characters after the last comma counts as thousands
clean_currency_lt2(value) ==
    IF value.t = "null" THEN <<>>
    ELSE LET cleaned == KeepDigitsSeps(Strip(PyStr(value)))
         IN IF Has(cleaned, ",") /\ Has(cleaned, ".")
            THEN Replace(cleaned, ",", <<>>)
            ELSE IF Has(cleaned, ",") /\ ~Has(cleaned, ".")
                 THEN IF Len(AfterLast(cleaned, ",")) < 2
                      THEN Replace(cleaned, ",", <<".">>)
                      ELSE Replace(cleaned, ",", <<>>)
                 ELSE cleaned

clean_currency(value) ==
    IF value.t = "null" THEN <<>>
    ELSE LET cleaned == KeepDigitsSeps(Strip(PyStr(value)))
         IN IF Has(cleaned, ",") /\ Has(cleaned, ".")
            THEN Replace(cleaned, ",", <<>>)
            ELSE IF Has(cleaned, ",") /\ ~Has(cleaned, ".")
                 THEN IF Len(AfterLast(cleaned, ",")) <= 2
                      THEN Replace(cleaned, ",", <<".">>)
                      ELSE Replace(cleaned, ",", <<>>)
                 ELSE cleaned

----------------------------------------------------------------------------
(* Canonical data model: models/invoice_model.py *)

VendorInfo(name, address, phone, email) ==
    Obj("VendorInfo", [name |-> name, address |-> address, phone |-> phone, email |-> email])

BillingInfo(name, address) ==
    Obj("BillingInfo", [name |-> name, address |-> address])

LineItem(description, quantity, unit_price, total) ==
    Obj("LineItem", [description |-> description, quantity |-> quantity,
                     unit_price |-> unit_price, total |-> total])

\* InvoiceData(): the dataclass defaults
InvoiceData ==
    [invoice_number |-> EmptyStr, invoice_date |-> EmptyStr, due_date |-> EmptyStr,
     currency |-> EmptyStr, subtotal |-> EmptyStr, tax_amount |-> EmptyStr,
     tax_rate |-> EmptyStr, total_amount |-> EmptyStr,
     vendor |-> VendorInfo(EmptyStr, EmptyStr, EmptyStr, EmptyStr),
     billing_to |-> BillingInfo(EmptyStr, EmptyStr),
     line_items |-> EmptyList,
     raw_response |-> EmptyStr, extraction_confidence |-> Num(0), processing_time |-> Num(0)]

\* VendorInfo.is_empty / BillingInfo.is_empty / LineItem.is_empty on an instance
IsEmptyObj(x) ==
    CASE x.t = "VendorInfo"  -> ~(Truthy(x.v.name) \/ Truthy(x.v.address)
                                  \/ Truthy(x.v.phone) \/ Truthy(x.v.email))
      [] x.t = "BillingInfo" -> ~(Truthy(x.v.name) \/ Truthy(x.v.address))
      [] x.t = "LineItem"    -> ~(Truthy(x.v.description) \/ Truthy(x.v.quantity)
                                  \/ Truthy(x.v.unit_price) \/ Truthy(x.v.total))

IsInstance(x) == x.t \in {"VendorInfo", "BillingInfo", "LineItem"}

\* x.is_empty(): the attribute exists on the dataclass instances only
is_empty(x) == IF IsInstance(x) THEN Ok(Bool(IsEmptyObj(x))) ELSE Raise("AttributeError")

\* VendorInfo.to_dict / BillingInfo.to_dict / LineItem.to_dict
ObjToDict(x) ==
    CASE x.t = "VendorInfo"  -> Map((k_name :> x.v.name) @@ (k_address :> x.v.address)
                                    @@ (k_phone :> x.v.phone) @@ (k_email :> x.v.email))
      [] x.t = "BillingInfo" -> Map((k_name :> x.v.name) @@ (k_address :> x.v.address))
      [] x.t = "LineItem"    -> Map((k_description :> x.v.description)
                                    @@ (k_quantity :> x.v.quantity)
                                    @@ (k_unit_price :> x.v.unit_price)
                                    @@ (k_total :> x.v.total))

\* "self.vendor and not self.vendor.is_empty()": an outcome holding the test's truth
PresentAndNotEmpty(x) ==
    IF ~Truthy(x) THEN Ok(Bool(FALSE))
    ELSE LET e == is_empty(x)
         IN IF Raised(e) THEN e ELSE Ok(Bool(~e.val.v))

\* a faulty variant: every item is serialized, the empty ones too
NonEmptyItemDicts_unfiltered(items) ==
    IF \E i \in 1..Len(items) : ~IsInstance(items[i])
    THEN Raise("AttributeError")
    ELSE Ok(List([i \in 1..Len(items) |-> ObjToDict(items[i])]))

\* [item.to_dict() for item in items if not item.is_empty()]
NonEmptyItemDicts(items) ==
    IF \E i \in 1..Len(items) : ~IsInstance(items[i])
    THEN Raise("AttributeError")
    ELSE LET kept == SelectSeq(items, LAMBDA it : ~IsEmptyObj(it))
         IN Ok(List([i \in 1..Len(kept) |-> ObjToDict(kept[i])]))

\* InvoiceData.to_dict
to_dict(self) ==
    LET base == (k_invoice_number :> self.invoice_number)
                @@ (k_invoice_date :> self.invoice_date)
                @@ (k_due_date :> self.due_date)
                @@ (k_currency :> self.currency)
                @@ (k_subtotal :> self.subtotal)
                @@ (k_tax_amount :> self.tax_amount)
                @@ (k_tax_rate :> self.tax_rate)
                @@ (k_total_amount :> self.total_amount)
        hasVendor  == PresentAndNotEmpty(self.vendor)
        hasBilling == PresentAndNotEmpty(self.billing_to)
        items == IF Truthy(self.line_items)
                 THEN NonEmptyItemDicts(self.line_items.v) ELSE Ok(Null)
    IN IF Raised(hasVendor) THEN hasVendor
       ELSE IF Raised(hasBilling) THEN hasBilling
       ELSE IF Raised(items) THEN items
       ELSE Ok(Map(
            (IF Truthy(self.raw_response)
             THEN k_metadata :> Map((k_raw_response :> self.raw_response)
                          @@ (k_extraction_confidence :> self.extraction_confidence)
                          @@ (k_processing_time :> self.processing_time))
             ELSE <<>>)
            @@ (IF Truthy(self.line_items) THEN k_line_items :> items.val ELSE <<>>)
            @@ (IF hasBilling.val.v THEN k_billing_to :> ObjToDict(self.billing_to) ELSE <<>>)
            @@ (IF hasVendor.val.v THEN k_vendor :> ObjToDict(self.vendor) ELSE <<>>)
            @@ base))

RECURSIVE SeqOfSet(_)
\* the members of a finite set in some order (the order of a dict's keys is not modelled)
SeqOfSet(S) ==
    IF S = {} THEN <<>>
    ELSE LET x == CHOOSE y \in S : TRUE IN <<x>> \o SeqOfSet(S \ {x})

\* "for x in value": the elements as a list, or TypeError
Iterate(x) ==
    CASE x.t = "list" -> Ok(x)
      [] x.t = "str"  -> Ok(List([i \in 1..Len(x.v) |-> Str(<<x.v[i]>>)]))
      [] x.t = "map"  -> Ok(List([i \in 1..Cardinality(DOMAIN x.v) |->
                                    Str(SeqOfSet(DOMAIN x.v)[i])]))
      [] OTHER        -> Raise("TypeError")

\* from_dict, lines 145-153
VendorFromDict(data) ==
    LET vendor_data == Get(data, k_vendor, EmptyMap)
    IN IF ~Truthy(vendor_data) THEN Ok(InvoiceData.vendor)
       ELSE IF ~IsMap(vendor_data) THEN Raise("AttributeError")
       ELSE Ok(VendorInfo(Get(vendor_data, k_name, EmptyStr),
                          Get(vendor_data, k_address, EmptyStr),
                          Get(vendor_data, k_phone, EmptyStr),
                          Get(vendor_data, k_email, EmptyStr)))

\* from_dict, lines 155-161
BillingFromDict(data) ==
    LET billing_data == Get(data, k_billing_to, EmptyMap)
    IN IF ~Truthy(billing_data) THEN Ok(InvoiceData.billing_to)
       ELSE IF ~IsMap(billing_data) THEN Raise("AttributeError")
       ELSE Ok(BillingInfo(Get(billing_data, k_name, EmptyStr),
                           Get(billing_data, k_address, EmptyStr)))

\* from_dict, lines 163-175
LineItemsFromDict(data) ==
    LET line_items_data == Get(data, k_line_items, EmptyList)
    IN IF ~Truthy(line_items_data) THEN Ok(InvoiceData.line_items)
       ELSE LET it == Iterate(line_items_data)
            IN IF Raised(it) THEN it
               ELSE LET maps == SelectSeq(it.val.v, IsMap)
                    IN Ok(List([i \in 1..Len(maps) |->
                               LineItem(Get(maps[i], k_description, EmptyStr),
                                        Get(maps[i], k_quantity, EmptyStr),
                                        Get(maps[i], k_unit_price, EmptyStr),
                                        Get(maps[i], k_total, EmptyStr))]))

\* InvoiceData.from_dict
from_dict(data) ==
    LET vendor   == VendorFromDict(data)
        billing  == BillingFromDict(data)
        items    == LineItemsFromDict(data)
        metadata == Get(data, k_metadata, EmptyMap)
    IN IF Raised(vendor) THEN vendor
       ELSE IF Raised(billing) THEN billing
       ELSE IF Raised(items) THEN items
       ELSE IF Truthy(metadata) /\ ~IsMap(metadata) THEN Raise("AttributeError")
       ELSE Ok([invoice_number |-> Get(data, k_invoice_number, EmptyStr),
                invoice_date   |-> Get(data, k_invoice_date, EmptyStr),
                due_date       |-> Get(data, k_due_date, EmptyStr),
                currency       |-> Get(data, k_currency, EmptyStr),
                subtotal       |-> Get(data, k_subtotal, EmptyStr),
                tax_amount     |-> Get(data, k_tax_amount, EmptyStr),
                tax_rate       |-> Get(data, k_tax_rate, EmptyStr),
                total_amount   |-> Get(data, k_total_amount, EmptyStr),
                vendor         |-> vendor.val,
                billing_to     |-> billing.val,
                line_items     |-> items.val,
                raw_response   |->
                    IF Truthy(metadata) THEN Get(metadata, k_raw_response, EmptyStr)
                    ELSE InvoiceData.raw_response,
                extraction_confidence |->
                    IF Truthy(metadata) THEN Get(metadata, k_extraction_confidence, Num(0))
                    ELSE InvoiceData.extraction_confidence,
                processing_time |->
                    IF Truthy(metadata) THEN Get(metadata, k_processing_time, Num(0))
                    ELSE InvoiceData.processing_time])

----------------------------------------------------------------------------
(* json.loads, for texts made of whitespace, objects, arrays, strings      *)
(* without escapes, integers and the literals null, true, false            *)

JsonWs == {" ", "\t", "\n", "\r"}

At(s, i) == IF i >= 1 /\ i <= Len(s) THEN s[i] ELSE "EOF"

RECURSIVE SkipWs(_, _)
SkipWs(s, i) == IF At(s, i) \in JsonWs THEN SkipWs(s, i + 1) ELSE i

Parsed(x, pos) == [ok |-> TRUE, val |-> x, pos |-> pos]
NoParse        == [ok |-> FALSE, val |-> Null, pos |-> 0]

RECURSIVE ClosingQuote(_, _)
\* the index of the '"' ending the string whose text starts at i, 0 when the
\* string is unterminated or holds a control character (strict mode)
ClosingQuote(s, i) ==
    CASE At(s, i) = "\"" -> i
      [] At(s, i) \in {"EOF", "\n", "\t", "\r"} -> 0
      [] OTHER -> ClosingQuote(s, i + 1)

\* s[i] = '"'
ParseString(s, i) ==
    LET j == ClosingQuote(s, i + 1)
    IN IF j = 0 THEN NoParse ELSE Parsed(Str(SubSeq(s, i + 1, j - 1)), j + 1)

RECURSIVE DigitRunEnd(_, _)
DigitRunEnd(s, i) == IF At(s, i) \in Digit THEN DigitRunEnd(s, i + 1) ELSE i

DigitValue(c) == CHOOSE n \in 0..9 : DigitsOf(n) = <<c>>

RECURSIVE IntOf(_)
IntOf(ds) ==
    IF ds = <<>> THEN 0
    ELSE 10 * IntOf(SubSeq(ds, 1, Len(ds) - 1)) + DigitValue(ds[Len(ds)])

\* s[i] is a digit: "0", or a run of digits that starts with 1-9
ParseNumber(s, i) ==
    IF s[i] = "0" THEN Parsed(Num(0), i + 1)
    ELSE LET e == DigitRunEnd(s, i) IN Parsed(Num(IntOf(SubSeq(s, i, e - 1))), e)

StartsWith(s, i, w) == i + Len(w) - 1 <= Len(s) /\ SubSeq(s, i, i + Len(w) - 1) = w

RECURSIVE ParseValue(_, _), ParseMembers(_, _, _), ParseElements(_, _, _)

ParseObject(s, i) ==
    LET j == SkipWs(s, i + 1)
    IN CASE At(s, j) = "}"  -> Parsed(EmptyMap, j + 1)
         [] At(s, j) = "\"" -> ParseMembers(s, j, <<>>)
         [] OTHER           -> NoParse

\* s[j] = '"' opens a key; acc holds the members read so far
ParseMembers(s, j, acc) ==
    LET key == ParseString(s, j)
        k   == SkipWs(s, key.pos)
        val == ParseValue(s, SkipWs(s, k + 1))
        m   == SkipWs(s, val.pos)
        n   == SkipWs(s, m + 1)
        now == (key.val.v :> val.val) @@ acc
    IN IF ~key.ok \/ At(s, k) # ":" THEN NoParse
       ELSE IF ~val.ok THEN NoParse
       ELSE CASE At(s, m) = "}" -> Parsed(Map(now), m + 1)
              [] At(s, m) = "," /\ At(s, n) = "\"" -> ParseMembers(s, n, now)
              [] OTHER -> NoParse

ParseArray(s, i) ==
    LET j == SkipWs(s, i + 1)
    IN IF At(s, j) = "]" THEN Parsed(EmptyList, j + 1) ELSE ParseElements(s, j, <<>>)

ParseElements(s, j, acc) ==
    LET val == ParseValue(s, j)
        m   == SkipWs(s, val.pos)
        now == Append(acc, val.val)
    IN IF ~val.ok THEN NoParse
       ELSE CASE At(s, m) = "]" -> Parsed(List(now), m + 1)
              [] At(s, m) = "," -> ParseElements(s, SkipWs(s, m + 1), now)
              [] OTHER -> NoParse

ParseValue(s, i) ==
    CASE At(s, i) = "\"" -> ParseString(s, i)
      [] At(s, i) = "{"  -> ParseObject(s, i)
      [] At(s, i) = "["  -> ParseArray(s, i)
      [] At(s, i) \in Digit -> ParseNumber(s, i)
      [] At(s, i) = "-" /\ At(s, i + 1) \in Digit ->
            LET n == ParseNumber(s, i + 1) IN Parsed(Num(-n.val.v), n.pos)
      [] StartsWith(s, i, <<"n","u","l","l">>)     -> Parsed(Null, i + 4)
      [] StartsWith(s, i, <<"t","r","u","e">>)     -> Parsed(Bool(TRUE), i + 4)
      [] StartsWith(s, i, <<"f","a","l","s","e">>) -> Parsed(Bool(FALSE), i + 5)
      [] OTHER -> NoParse

\* json.loads(text): the value, or JSONDecodeError (also on extra data after it)
json_loads(text) ==
    LET v == ParseValue(text, SkipWs(text, 1))
    IN IF v.ok /\ SkipWs(text, v.pos) = Len(text) + 1
       THEN Ok(v.val) ELSE Raise("JSONDecodeError")

----------------------------------------------------------------------------
(* Display formatting: utils/data_parser.py, ui/components.py *)

\* a text float() accepts, among texts without sign, exponent, underscore,
\* "inf" and "nan": digits with at most one point and at least one digit
IsDecimalText(s) ==
    /\ \A i \in 1..Len(s) : s[i] \in Digit \cup {"."}
    /\ CountOf(s, ".") <= 1
    /\ \E i \in 1..Len(s) : s[i] \in Digit

\* float(x): the value as sign, whole part and decimal digits
PyFloat(x) ==
    CASE x.t = "num"  -> Ok([neg |-> x.v < 0, whole |-> IF x.v < 0 THEN -x.v ELSE x.v,
                             frac |-> <<>>])
      [] x.t = "bool" -> Ok([neg |-> FALSE, whole |-> IF x.v THEN 1 ELSE 0, frac |-> <<>>])
      [] x.t = "str"  ->
            LET s == Strip(x.v)
                point == IF Has(s, ".") THEN CHOOSE i \in 1..Len(s) : s[i] = "." ELSE Len(s) + 1
            IN IF IsDecimalText(s)
               THEN Ok([neg |-> FALSE, whole |-> IntOf(SubSeq(s, 1, point - 1)),
                        frac |-> SubSeq(s, point + 1, Len(s))])
               ELSE Raise("ValueError")
      [] OTHER        -> Raise("TypeError")

RECURSIVE Grouped(_)
\* the digits in groups of three from the right, a comma between groups
Grouped(ds) ==
    IF Len(ds) <= 3 THEN ds
    ELSE Grouped(SubSeq(ds, 1, Len(ds) - 3)) \o <<",">> \o SubSeq(ds, Len(ds) - 2, Len(ds))

\* f"{x:,.2f}"; a tie in the third decimal is decided by the float's binary
\* value, and no amount of the inputs has one
FormatFixed2(x) ==
    LET two   == SubSeq(x.frac \o <<"0", "0">>, 1, 2)
        rest  == SubSeq(x.frac, 3, Len(x.frac))
        up    == /\ rest # <<>>
                 /\ \/ DigitValue(rest[1]) > 5
                    \/ rest[1] = "5" /\ \E j \in 2..Len(rest) : rest[j] # "0"
        n     == x.whole * 100 + IntOf(two) + (IF up THEN 1 ELSE 0)
        cents == IF n % 100 < 10 THEN <<"0">> \o DigitsOf(n % 100) ELSE DigitsOf(n % 100)
    IN (IF x.neg THEN <<"-">> ELSE <<>>) \o Grouped(DigitsOf(n \div 100)) \o <<".">> \o cents

\* format_currency
format_currency(amount, currency) ==
    IF ~Truthy(amount) THEN Ok(Str(<<"N", "/", "A">>))
    ELSE LET float_amount == PyFloat(amount)
         IN IF float_amount.exc = "ValueError"
            THEN Ok(Str(Strip(currency \o <<" ">> \o PyStr(amount))))
            ELSE IF Raised(float_amount) THEN float_amount
            ELSE Ok(Str(Strip(currency \o <<" ">> \o FormatFixed2(float_amount.val))))

----------------------------------------------------------------------------
(* Validation: models/invoice_model.py, InvoiceData.validate *)

\* the messages of validate
Messages ==
    [invoice_number_required |->
        <<"I","n","v","o","i","c","e"," ","n","u","m","b","e","r"," ","i","s"," ",
        "r","e","q","u","i","r","e","d">>,
     total_amount_required |->
        <<"T","o","t","a","l"," ","a","m","o","u","n","t"," ","i","s"," ","r","e",
        "q","u","i","r","e","d">>,
     invoice_date_format |->
        <<"I","n","v","o","i","c","e"," ","d","a","t","e"," ","f","o","r","m","a",
        "t"," ","m","a","y"," ","b","e"," ","i","n","v","a","l","i","d">>,
     due_date_format |->
        <<"D","u","e"," ","d","a","t","e"," ","f","o","r","m","a","t"," ","m","a",
        "y"," ","b","e"," ","i","n","v","a","l","i","d">>,
     total_amount_invalid |->
        <<"T","o","t","a","l"," ","a","m","o","u","n","t"," ","i","s"," ","n","o",
        "t"," ","a"," ","v","a","l","i","d"," ","n","u","m","b","e","r">>,
     line_item |->
        <<"L","i","n","e"," ","i","t","e","m"," ">>,
     description_missing |->
        <<":"," ","D","e","s","c","r","i","p","t","i","o","n"," ","i","s"," ","m",
        "i","s","s","i","n","g">>,
     unit_price_invalid |->
        <<":"," ","U","n","i","t"," ","p","r","i","c","e"," ","i","s"," ","n","o",
        "t"," ","a"," ","v","a","l","i","d"," ","n","u","m","b","e","r">>]

\* the pieces of a regular expression: a character class repeated min..max times
Piece(class, min, max) == [class |-> class, min |-> min, max |-> max]

DateSeparator == {"/", "-"}

\* date_pattern: \d{1,2}[/-]\d{1,2}[/-]\d{2,4} | \d{4}[/-]\d{1,2}[/-]\d{1,2}
date_pattern ==
    {<<Piece(Digit, 1, 2), Piece(DateSeparator, 1, 1), Piece(Digit, 1, 2),
       Piece(DateSeparator, 1, 1), Piece(Digit, 2, 4)>>,
     <<Piece(Digit, 4, 4), Piece(DateSeparator, 1, 1), Piece(Digit, 1, 2),
       Piece(DateSeparator, 1, 1), Piece(Digit, 1, 2)>>}

RECURSIVE MatchesAt(_, _, _)
\* the pieces match some stretch of s that starts at position i
MatchesAt(s, i, pieces) ==
    IF pieces = <<>> THEN TRUE
    ELSE LET p == Head(pieces)
         IN \E n \in p.min..p.max :
                /\ \A j \in 0..(n - 1) : At(s, i + j) \in p.class
                /\ MatchesAt(s, i + n, Tail(pieces))

\* re.match(pattern, s): a match that starts at the first character
re_match(pattern, s) == \E alternative \in pattern : MatchesAt(s, 1, alternative)

\* "if value and not re.match(date_pattern, value)": the messages to append
DateCheck(value, message) ==
    IF ~Truthy(value) THEN Ok(<<>>)
    ELSE IF value.t # "str" THEN Raise("TypeError")
    ELSE IF re_match(date_pattern, value.v) THEN Ok(<<>>)
    ELSE Ok(<<Str(message)>>)

\* a faulty variant: an empty amount is converted too
AmountCheck_unguarded(value, message) ==
    IF value.t # "str" THEN Raise("TypeError")
    ELSE IF PyFloat(Str(SelectSeq(value.v, LAMBDA c : c \in Digit \cup {"."}))).exc
            = "ValueError"
         THEN Ok(<<Str(message)>>)
         ELSE Ok(<<>>)

\* a faulty variant: the amount is converted as it stands
AmountCheck_unfiltered(value, message) ==
    IF ~Truthy(value) THEN Ok(<<>>)
    ELSE IF value.t # "str" THEN Raise("TypeError")
    ELSE IF PyFloat(value).exc = "ValueError" THEN Ok(<<Str(message)>>)
    ELSE Ok(<<>>)

\* "if value: try: float(re.sub(r'[^\d.]', '', value)) except ValueError"
AmountCheck(value, message) ==
    IF ~Truthy(value) THEN Ok(<<>>)
    ELSE IF value.t # "str" THEN Raise("TypeError")
    ELSE IF PyFloat(Str(SelectSeq(value.v, LAMBDA c : c \in Digit \cup {"."}))).exc
            = "ValueError"
         THEN Ok(<<Str(message)>>)
         ELSE Ok(<<>>)

\* "if not value: errors.append(message)"
RequiredCheck(value, message) ==
    IF Truthy(value) THEN Ok(<<>>) ELSE Ok(<<Str(message)>>)

RECURSIVE Chain(_)
\* the checks in the order of the code: the first exception ends the call,
\* otherwise the messages are appended in order
Chain(checks) ==
    IF checks = <<>> THEN Ok(<<>>)
    ELSE IF Raised(Head(checks)) THEN Head(checks)
    ELSE LET rest == Chain(Tail(checks))
         IN IF Raised(rest) THEN rest ELSE Ok(Head(checks).val \o rest.val)

\* a faulty variant: the message names the item by its index from 0
ItemCheck_from_zero(item, i) ==
    IF item.t # "LineItem" THEN Raise("AttributeError")
    ELSE Chain(<<RequiredCheck(item.v.description,
                               Messages.line_item \o DigitsOf(i) \o Messages.description_missing),
                 AmountCheck(item.v.unit_price,
                             Messages.line_item \o DigitsOf(i) \o Messages.unit_price_invalid)>>)

\* the body of the loop over line items, for the item at index i (from 0)
ItemCheck(item, i) ==
    IF item.t # "LineItem" THEN Raise("AttributeError")
    ELSE Chain(<<RequiredCheck(item.v.description,
                               Messages.line_item \o DigitsOf(i + 1) \o Messages.description_missing),
                 AmountCheck(item.v.unit_price,
                             Messages.line_item \o DigitsOf(i + 1) \o Messages.unit_price_invalid)>>)

\* "if self.line_items: for i, item in enumerate(self.line_items)"
ItemsCheck(line_items) ==
    IF ~Truthy(line_items) THEN Ok(<<>>)
    ELSE LET it == Iterate(line_items)
         IN IF Raised(it) THEN it
            ELSE Chain([i \in 1..Len(it.val.v) |-> ItemCheck(it.val.v[i], i - 1)])

\* InvoiceData.validate
validate(self) ==
    LET errors == Chain(<<RequiredCheck(self.invoice_number, Messages.invoice_number_required),
                          RequiredCheck(self.total_amount, Messages.total_amount_required),
                          DateCheck(self.invoice_date, Messages.invoice_date_format),
                          DateCheck(self.due_date, Messages.due_date_format),
                          AmountCheck(self.total_amount, Messages.total_amount_invalid),
                          ItemsCheck(self.line_items)>>)
    IN IF Raised(errors) THEN errors ELSE Ok(List(errors.val))

----------------------------------------------------------------------------
(* Completeness: models/invoice_model.py, is_complete and the completion rate *)

\* "x and e": x itself when x is falsy, otherwise the outcome e
PyAnd(x, e) == IF Truthy(x) THEN e ELSE Ok(x)

\* len(x) > 0
LenPositive(x) ==
    IF x.t \in {"list", "str", "map"} THEN Ok(Bool(Truthy(x))) ELSE Raise("TypeError")

\* "self.vendor and not self.vendor.is_empty()"
VendorNotEmpty(self) ==
    PyAnd(self.vendor,
          LET e == is_empty(self.vendor) IN IF Raised(e) THEN e ELSE Ok(Bool(~e.val.v)))

\* "self.line_items and len(self.line_items) > 0"
HasLineItems(self) == PyAnd(self.line_items, LenPositive(self.line_items))

\* InvoiceData.is_complete
is_complete(self) ==
    LET basic_complete == Truthy(self.invoice_number) /\ Truthy(self.total_amount)
        vendor         == VendorNotEmpty(self)
        has_details    == IF Raised(vendor) \/ Truthy(vendor.val) THEN vendor
                          ELSE HasLineItems(self)
    IN IF Raised(has_details) THEN has_details
       ELSE IF basic_complete THEN has_details ELSE Ok(Bool(FALSE))

\* a float, kept exactly as the quotient num / den
Float(num, den) == [t |-> "float", v |-> [num |-> num, den |-> den]]

\* how many of the fields are truthy
Completed(fields) == Cardinality({i \in DOMAIN fields : Truthy(fields[i])})

\* the vendor fields of every record, also of a record without a vendor
VendorFields_always(self) ==
    IF ~Truthy(self.vendor) THEN Ok(<<EmptyStr, EmptyStr, EmptyStr, EmptyStr>>)
    ELSE IF self.vendor.t # "VendorInfo" THEN Raise("AttributeError")
    ELSE Ok(<<self.vendor.v.name, self.vendor.v.address,
              self.vendor.v.phone, self.vendor.v.email>>)

\* "if self.vendor:" the four vendor fields; the attributes exist on a
\* VendorInfo only
VendorFields(self) ==
    IF ~Truthy(self.vendor) THEN Ok(<<>>)
    ELSE IF self.vendor.t # "VendorInfo" THEN Raise("AttributeError")
    ELSE Ok(<<self.vendor.v.name, self.vendor.v.address,
              self.vendor.v.phone, self.vendor.v.email>>)

\* InvoiceData._calculate_completion_rate: completed / total * 100; the
\* quotient by 4 or 8 and its product with 100 are exact in floating point
_calculate_completion_rate(self) ==
    LET basic_fields  == <<self.invoice_number, self.invoice_date, self.total_amount>>
        vendor_fields == VendorFields(self)
        items         == HasLineItems(self)
    IN IF Raised(vendor_fields) THEN vendor_fields
       ELSE IF Raised(items) THEN items
       ELSE LET total_fields     == Len(basic_fields) + Len(vendor_fields.val) + 1
                completed_fields == Completed(basic_fields) + Completed(vendor_fields.val)
                                    + (IF Truthy(items.val) THEN 1 ELSE 0)
            IN Ok(Float(completed_fields * 100, total_fields))

----------------------------------------------------------------------------
(* Result parser: utils/data_parser.py *)

\* a faulty variant: the pattern r'\{.*' (the closing brace is not required)
re_search_open_only(content) ==
    LET opens == {i \in 1..Len(content) : content[i] = "{"}
    IN IF opens = {} THEN <<>>
       ELSE <<SubSeq(content, CHOOSE i \in opens : \A k \in opens : i <= k, Len(content))>>

\* a faulty variant: the lazy pattern r'\{.*?\}' (the span ends at the first '}')
re_search_lazy(content) ==
    LET opens == {i \in 1..Len(content) :
                    content[i] = "{" /\ \E j \in (i + 1)..Len(content) : content[j] = "}"}
    IN IF opens = {} THEN <<>>
       ELSE LET first  == CHOOSE i \in opens : \A k \in opens : i <= k
                closes == {j \in (first + 1)..Len(content) : content[j] = "}"}
            IN <<SubSeq(content, first, CHOOSE j \in closes : \A k \in closes : j <= k)>>

\* re.search(r'\{.*\}', content, re.DOTALL): <<>> when there is no match, else
\* <<the matched text>>: from the first '{' that a '}' follows to the last '}'
re_search(content) ==
    LET opens == {i \in 1..Len(content) :
                    content[i] = "{" /\ \E j \in (i + 1)..Len(content) : content[j] = "}"}
    IN IF opens = {} THEN <<>>
       ELSE LET first == CHOOSE i \in opens : \A k \in opens : i <= k
                last  == CHOOSE j \in 1..Len(content) :
                            /\ content[j] = "}"
                            /\ \A k \in (j + 1)..Len(content) : content[k] # "}"
            IN <<SubSeq(content, first, last)>>

\* lines 68-76 of validate_invoice_data: the value assigned to invoice.vendor
VendorAssigned(data) ==
    LET vendor_data == Get(data, k_vendor, EmptyMap)
    IN IF ~Truthy(vendor_data) THEN Ok(InvoiceData.vendor)
       ELSE IF ~IsMap(vendor_data) THEN Raise("AttributeError")
       ELSE Ok(Map((k_name :> Str(clean_string(Get(vendor_data, k_name, EmptyStr))))
               @@ (k_address :> Str(clean_string(Get(vendor_data, k_address, EmptyStr))))
               @@ (k_phone :> Str(clean_string(Get(vendor_data, k_phone, EmptyStr))))
               @@ (k_email :> Str(clean_string(Get(vendor_data, k_email, EmptyStr))))))

\* lines 78-84: the value assigned to invoice.billing_to
BillingAssigned(data) ==
    LET billing_data == Get(data, k_billing_to, EmptyMap)
    IN IF ~Truthy(billing_data) THEN Ok(InvoiceData.billing_to)
       ELSE IF ~IsMap(billing_data) THEN Raise("AttributeError")
       ELSE Ok(Map((k_name :> Str(clean_string(Get(billing_data, k_name, EmptyStr))))
               @@ (k_address :> Str(clean_string(Get(billing_data, k_address, EmptyStr))))))

\* lines 92-97: the cleaned item built from one source entry
CleanedItem(item) ==
    Map((k_description :> Str(clean_string(Get(item, k_description, EmptyStr))))
        @@ (k_quantity :> Str(clean_string(Get(item, k_quantity, EmptyStr))))
        @@ (k_unit_price :> Str(clean_currency(Get(item, k_unit_price, EmptyStr))))
        @@ (k_total :> Str(clean_currency(Get(item, k_total, EmptyStr)))))

\* lines 86-98: the value assigned to invoice.line_items
LineItemsAssigned(data) ==
    LET line_items == Get(data, k_line_items, EmptyList)
    IN IF ~Truthy(line_items) THEN Ok(InvoiceData.line_items)
       ELSE LET it == Iterate(line_items)
            IN IF Raised(it) THEN it
               ELSE LET maps == SelectSeq(it.val.v, IsMap)
                    IN Ok(List([i \in 1..Len(maps) |-> CleanedItem(maps[i])]))

\* lines 53-98: the InvoiceData instance after the field assignments
AssignedInvoice(data) ==
    LET vendor  == VendorAssigned(data)
        billing == BillingAssigned(data)
        items   == LineItemsAssigned(data)
    IN IF Raised(vendor) THEN vendor
       ELSE IF Raised(billing) THEN billing
       ELSE IF Raised(items) THEN items
       ELSE Ok([InvoiceData EXCEPT
                !.invoice_number = Str(clean_string(Get(data, k_invoice_number, EmptyStr))),
                !.invoice_date   = Str(clean_string(Get(data, k_invoice_date, EmptyStr))),
                !.due_date       = Str(clean_string(Get(data, k_due_date, EmptyStr))),
                !.currency       = Str(clean_string(Get(data, k_currency, EmptyStr))),
                !.subtotal       = Str(clean_currency(Get(data, k_subtotal, EmptyStr))),
                !.tax_amount     = Str(clean_currency(Get(data, k_tax_amount, EmptyStr))),
                !.tax_rate       = Str(clean_string(Get(data, k_tax_rate, EmptyStr))),
                !.total_amount   = Str(clean_currency(Get(data, k_total_amount, EmptyStr))),
                !.vendor         = vendor.val,
                !.billing_to     = billing.val,
                !.line_items     = items.val])

\* a faulty variant: no try/except around the mapping
validate_invoice_data_unguarded(data) ==
    LET invoice == AssignedInvoice(data)
    IN IF Raised(invoice) THEN invoice ELSE to_dict(invoice.val)

\* validate_invoice_data(data) for a dict data
validate_invoice_data(data) ==
    LET invoice == AssignedInvoice(data)
        out     == IF Raised(invoice) THEN invoice ELSE to_dict(invoice.val)
    IN IF Raised(out) THEN Signalled("warning", data) ELSE out

\* x[key] for a string key
SubscriptKey(x, key) ==
    IF IsMap(x)
    THEN IF key \in DOMAIN x.v THEN Ok(x.v[key]) ELSE Raise("KeyError")
    ELSE Raise("TypeError")

\* x[0]
SubscriptZero(x) ==
    CASE x.t = "list" -> IF Len(x.v) > 0 THEN Ok(x.v[1]) ELSE Raise("IndexError")
      [] x.t = "str"  -> IF Len(x.v) > 0 THEN Ok(Str(<<x.v[1]>>)) ELSE Raise("IndexError")
      [] x.t = "map"  -> Raise("KeyError")    \* the keys of the modelled dicts are strings
      [] OTHER        -> Raise("TypeError")

\* api_response['choices'][0]['message']['content']
ContentOf(api_response) ==
    LET choices == SubscriptKey(api_response, k_choices)
        first   == IF Raised(choices) THEN choices ELSE SubscriptZero(choices.val)
        message == IF Raised(first) THEN first ELSE SubscriptKey(first.val, k_message)
    IN IF Raised(message) THEN message ELSE SubscriptKey(message.val, k_content)

\* lines 21-33, the body of the try block
ParseBody(api_response) ==
    LET content == ContentOf(api_response)
    IN IF Raised(content) THEN content
       ELSE IF content.val.t # "str" THEN Raise("TypeError")
       ELSE LET json_match == re_search(content.val.v)
            IN IF json_match # <<>>
               THEN LET parsed_data == json_loads(json_match[1])
                    IN IF Raised(parsed_data) THEN parsed_data
                       ELSE validate_invoice_data(parsed_data.val)
               ELSE Signalled("warning", Map(k_raw_response :> content.val))

\* a faulty variant: only "except (KeyError, json.JSONDecodeError)", no "except Exception"
parse_extraction_result_narrow(api_response) ==
    LET r == ParseBody(api_response)
    IN IF r.exc \in {"KeyError", "JSONDecodeError"} THEN Signalled("error", Null) ELSE r

\* parse_extraction_result(api_response)
parse_extraction_result(api_response) ==
    LET r == ParseBody(api_response)
    IN IF Raised(r) THEN Signalled("error", Null) ELSE r

----------------------------------------------------------------------------
(* Session: utils/image_processor.py, main.py *)

\* line 37: uploaded_file.type.startswith('image')
IsImage(ftype) == ftype \in {"image/png", "image/jpeg"}

\* lines 37-76: the Extract button was clicked on an image, an API key is
\* configured and the API call returned a response
Parses(ftype, clicked, api_key, api_response) ==
    IsImage(ftype) /\ clicked /\ Truthy(api_key) /\ Truthy(api_response)

\* a faulty variant: the result is stored without the test of line 80
ShouldStore_always(parsed) == TRUE

\* a faulty variant: the raw-text fallback is not stored
ShouldStore_normalized(parsed) ==
    Truthy(parsed.val) /\ ~(IsMap(parsed.val) /\ k_raw_response \in DOMAIN parsed.val.v)

\* line 80: "if extracted_data:"
ShouldStore(parsed) == Truthy(parsed.val)

\* a faulty variant: the keys of the earlier record are kept under the new ones
StoredRecord_merged(earlier, extracted) ==
    IF IsMap(earlier) /\ IsMap(extracted) THEN Map(extracted.v @@ earlier.v) ELSE extracted

\* line 82: st.session_state.extracted_data = extracted_data
StoredRecord(earlier, extracted) == extracted

\* main(), lines 38-42: the record the results section renders, Null when none
Displayed(complete, data) == IF complete /\ data # Unset THEN data ELSE Null

----------------------------------------------------------------------------
(* Inputs *)

MaxTextLen == 4
MaxItems   == 2

S_INV1   == <<"I","N","V","-","1">>
S_dirty  == <<" ","A"," "," ","1"," ">>
S_money  == <<"$","1",",","2","3","4",".","5","6">>
S_euro   == <<"4","5",",","9","0">>
S_thou   == <<"1",",","2","3","4">>
S_acme   == <<" ","A","c","m","e"," "," ","I","n","c"," ">>
S_street == <<"1"," "," ","M","a","i","n"," ","S","t">>

Q(s) == <<"\"">> \o s \o <<"\"">>
\* "key": value
Member(k, v) == Q(k) \o <<":", " ">> \o v
\* {member, member, ...}
Object(ms) ==
    <<"{">> \o Cat([i \in 1..Len(ms) |-> IF i = 1 THEN ms[i] ELSE <<",", " ">> \o ms[i]])
    \o <<"}">>

B_scenario   == Object(<<Member(k_invoice_number, Q(S_INV1)),
                         Member(k_total_amount, Q(<<"9","9",".","9","9">>))>>)
B_dirty      == Object(<<Member(k_invoice_number, Q(S_dirty)),
                         Member(k_total_amount, Q(S_money)),
                         Member(k_tax_rate, <<"1","2">>)>>)
B_vendor     == Object(<<Member(k_invoice_number, Q(S_dirty)),
                         Member(k_vendor, Object(<<Member(k_name, Q(S_acme))>>))>>)
B_vendor_str == Object(<<Member(k_vendor, Q(<<"x">>))>>)
B_items      == Object(<<Member(k_line_items,
                    <<"[">> \o Object(<<Member(k_description, Q(<<"d">>)),
                                        Member(k_unit_price, Q(S_euro))>>)
                    \o <<",", " ", "3", "]">>)>>)
B_items_num  == Object(<<Member(k_line_items, <<"5">>)>>)
B_nomaps     == Object(<<Member(k_total_amount, Q(S_thou)),
                         Member(k_line_items, <<"[", "3", "]">>)>>)
B_newline    == <<"{", "\n", "}">>
B_undecodable == <<"{">> \o Q(k_invoice_number) \o <<":", " ", "}">>
B_unquoted   == <<"{", "x", "}">>

\* spans that decode to an object
ObjectTexts == {<<"{", "}">>, B_scenario, B_dirty, B_vendor, B_vendor_str, B_items,
                B_items_num, B_nomaps, B_newline}
\* spans '{' ... '}' that do not decode
BadSpans    == {B_undecodable, B_unquoted}

\* prose without a brace
Prose     == {<<>>, <<"o","k",":"," ">>, <<"\n">>}
\* text with a brace in it
BraceText == {<<"{", " ">>, <<" ", "}">>, <<"}", " ", "{">>}

TextAlphabet == {"{", "}", "a", "\n", "\""}

RECURSIVE TextsUpTo(_)
TextsUpTo(n) ==
    IF n = 0 THEN {<<>>}
    ELSE LET shorter == TextsUpTo(n - 1)
         IN shorter \cup {Append(t, c) : t \in shorter, c \in TextAlphabet}

Texts ==
    {pre \o body \o post : pre \in Prose \cup BraceText,
                           body \in ObjectTexts \cup BadSpans,
                           post \in Prose \cup BraceText}
    \cup {a \o <<" ">> \o b : a \in ObjectTexts, b \in ObjectTexts}
    \cup TextsUpTo(MaxTextLen)

\* what OpenRouterClient.extract_invoice_data returns on success
Response(content) ==
    Map(k_choices :> List(<<Map(k_message :> Map(k_content :> content))>>))

\* responses that lack a key or hold a value of another type
MalformedResponses ==
    {Null, EmptyMap, Num(5), Str(<<"x">>), EmptyList,
     Map(k_choices :> EmptyList), Map(k_choices :> Null), Map(k_choices :> Str(<<"a","b">>)),
     Map(k_choices :> List(<<EmptyMap>>)), Map(k_choices :> EmptyMap),
     Map(k_choices :> List(<<Map(k_message :> Null)>>)),
     Map(k_choices :> List(<<Map(k_message :> EmptyMap)>>)),
     Response(Null), Response(Num(5)), Response(List(<<Str(<<"{", "}">>)>>))}

ApiResponses == {Response(Str(t)) : t \in Texts} \cup MalformedResponses

\* values a decoded map may hold in a scalar field; Unset stands for "no such key"
ScalarPool == <<Str(S_dirty), Str(S_money), Unset, Num(12), Str(S_euro), Null,
                Str(S_thou), EmptyStr, Str(S_INV1)>>
ScalarKeys == <<k_invoice_number, k_invoice_date, k_due_date, k_currency,
                k_subtotal, k_tax_amount, k_tax_rate, k_total_amount>>
Rotations  == {0, 1, 4, 6}

OptKey(k, x) == IF x = Unset THEN <<>> ELSE k :> x

\* the scalar fields: field j holds the pool's value j + rot
Scalars(rot) ==
    LET val(j) == ScalarPool[((rot + j) % Len(ScalarPool)) + 1]
        keys   == {ScalarKeys[j] : j \in {j \in 1..Len(ScalarKeys) : val(j) # Unset}}
    IN [k \in keys |-> val(CHOOSE j \in 1..Len(ScalarKeys) : ScalarKeys[j] = k)]

VendorPool ==
    {Unset, Null, EmptyMap, Map(k_name :> EmptyStr), Map(k_name :> Str(S_acme)),
     Map((k_name :> Str(<<"A">>)) @@ (k_address :> EmptyStr)
         @@ (k_phone :> Str(<<"5">>)) @@ (k_email :> EmptyStr)),
     Str(<<"x">>)}

BillingPool ==
    {Unset, EmptyMap, Map(k_name :> Str(<<" ", " ">>)),
     Map((k_name :> Str(<<"B">>)) @@ (k_address :> Str(S_street))), Num(5)}

ItemPool ==
    {EmptyMap, Num(3), Map(k_total :> Str(S_euro)),
     Map((k_description :> Str(S_dirty)) @@ (k_quantity :> Num(2))
         @@ (k_unit_price :> Str(S_money)) @@ (k_total :> Str(S_thou)))}

RECURSIVE ItemSeqs(_)
ItemSeqs(n) ==
    IF n = 0 THEN {<<>>}
    ELSE LET shorter == ItemSeqs(n - 1)
         IN shorter \cup {Append(q, x) : q \in shorter, x \in ItemPool}

LinePool ==
    {Unset, Null, Num(5), Str(<<"a","b">>), Map(k_total :> Str(<<"1">>))}
    \cup {List(q) : q \in ItemSeqs(MaxItems)}

MetadataPool ==
    {Unset, EmptyMap, Str(<<"x">>),
     Map((k_raw_response :> Str(<<"r">>)) @@ (k_extraction_confidence :> Num(1))),
     Map(k_extraction_confidence :> Num(1))}

GenericMap(rot, vendor, billing, items, metadata) ==
    Map(OptKey(k_vendor, vendor) @@ OptKey(k_billing_to, billing)
        @@ OptKey(k_line_items, items) @@ OptKey(k_metadata, metadata) @@ Scalars(rot))

\* maps as json.loads hands them to validate_invoice_data
DecodedMaps ==
    {GenericMap(rot, v, b, l, Unset) :
        rot \in Rotations, v \in VendorPool, b \in BillingPool, l \in LinePool}

\* loosely-typed maps handed to InvoiceData.from_dict
LooseMaps ==
    {GenericMap(rot, v, b, l, md) :
        rot \in {0, 4}, v \in VendorPool, b \in BillingPool,
        l \in LinePool, md \in MetadataPool}

\* values handed to the normalizer
MaxStrLen == 5

S_money_plain == <<"1",",","2","3","4",".","5","6">>
S_two_points  == <<"1",".","2","3","4",".","5","6">>
S_commas      == <<"1",",","2",",","3">>

CurrencyAlphabet == {"1", ",", ".", "$", " "}
StringAlphabet   == {"a", " ", "\n"}

RECURSIVE StringsUpTo(_, _)
StringsUpTo(alphabet, n) ==
    IF n = 0 THEN {<<>>}
    ELSE LET shorter == StringsUpTo(alphabet, n - 1)
         IN shorter \cup {Append(t, c) : t \in shorter, c \in alphabet}

NormalizerInputs ==
    {Str(t) : t \in StringsUpTo(CurrencyAlphabet, MaxStrLen)
                    \cup StringsUpTo(StringAlphabet, MaxStrLen)
                    \cup {S_money, S_money_plain, S_two_points, S_commas, S_euro, S_thou,
                          S_dirty, S_acme, S_street, S_INV1}}
    \cup {Null, Num(0), Num(12), Num(1234), Num(-5), Bool(TRUE), Bool(FALSE)}

\* values a stored invoice map may hold as a line item's unit price
AmountInputs ==
    NormalizerInputs
    \cup {EmptyList, EmptyMap, List(<<Num(5)>>), Map(k_total :> Str(<<"5">>))}

\* line items of a stored invoice map
DisplayedItems == {EmptyMap} \cup {Map(k_unit_price :> a) : a \in AmountInputs}

CurrencyCodes == {<<>>, <<"U", "S", "D">>}

\* date texts: a run of digits, a separator, a run, a separator, a run, and
\* possibly one more character
MaxRun == 5

Run(n) == [i \in 1..n |-> "1"]

S_abc == <<"a", "b", "c">>

DateTexts ==
    {Run(a) \o <<s1>> \o Run(b) \o <<s2>> \o Run(c) \o x :
        a \in 0..MaxRun, b \in 1..3, c \in 0..MaxRun,
        s1 \in {"/", "-", "."}, s2 \in {"/", "-", "."}, x \in {<<>>, <<"x">>}}
    \cup {<<>>, S_abc, <<" ">> \o Run(1) \o <<"/">> \o Run(1) \o <<"/">> \o Run(2)}

DuePool ==
    {Unset, EmptyStr, Str(Run(4) \o <<"-">> \o Run(1) \o <<"-">> \o Run(2)),
     Str(Run(1) \o <<"/">> \o Run(1) \o <<"/">> \o Run(3)), Str(S_abc), Num(12)}

AmountTexts ==
    StringsUpTo({"1", ".", "a"}, MaxStrLen) \cup {S_abc, S_money, S_two_points, <<" ">>}

\* entries of line_items: with and without a description, with a unit price
\* that is absent, convertible, not convertible, or not a string
RecordItemPool ==
    {EmptyMap, Num(3), Map(k_description :> Str(<<"d">>)),
     Map((k_description :> Str(<<"d">>)) @@ (k_unit_price :> Str(S_money))),
     Map(k_unit_price :> Str(S_abc)),
     Map((k_description :> Str(<<"d">>)) @@ (k_unit_price :> Str(S_two_points))),
     Map((k_description :> EmptyStr) @@ (k_unit_price :> Str(<<"5">>))),
     Map((k_description :> Str(<<"d">>)) @@ (k_unit_price :> Num(5)))}

RECURSIVE RecordItemSeqs(_)
RecordItemSeqs(n) ==
    IF n = 0 THEN {<<>>}
    ELSE LET shorter == RecordItemSeqs(n - 1)
         IN shorter \cup {Append(q, x) : q \in shorter, x \in RecordItemPool}

\* loosely-typed maps whose record validate() is applied to
RecordMap(number, date, due, total, items) ==
    Map(OptKey(k_invoice_number, number) @@ OptKey(k_invoice_date, date)
        @@ OptKey(k_due_date, due) @@ OptKey(k_total_amount, total)
        @@ OptKey(k_line_items, items))

\* the vendor entry of a map
RecordVendors ==
    {Unset, EmptyMap, Map(k_name :> EmptyStr), Map(k_name :> Str(<<"A">>)),
     Map((k_name :> Str(<<"A">>)) @@ (k_address :> Str(S_street))
         @@ (k_phone :> Str(<<"5">>)) @@ (k_email :> Str(<<"e">>)))}

RecordMaps ==
    {RecordMap(Str(S_INV1), Str(d), due, Str(<<"1", "2">>), Unset) :
        d \in DateTexts, due \in DuePool}
    \cup {RecordMap(n, date, Unset, t, Unset) :
            n \in {Unset, EmptyStr, Str(S_INV1), Str(<<" ">>), Num(0), Num(12)},
            date \in {Unset, Num(12)},
            t \in {Str(a) : a \in AmountTexts} \cup {Unset, Num(0), Num(12)}}
    \cup {RecordMap(n, Unset, Unset, t, List(q)) :
            n \in {EmptyStr, Str(S_INV1)}, t \in {EmptyStr, Str(S_money)},
            q \in RecordItemSeqs(MaxItems)}
    \cup {Map(OptKey(k_vendor, v) @@ RecordMap(n, date, Unset, t, items).v) :
            v \in RecordVendors,
            n \in {EmptyStr, Str(S_INV1)}, t \in {EmptyStr, Str(S_money), Str(S_abc)},
            date \in {Unset, Str(Run(1) \o <<"/">> \o Run(1) \o <<"/">> \o Run(2))},
            items \in {Unset, List(<<EmptyMap>>), List(<<Map(k_description :> Str(<<"d">>))>>)}}

\* the session's inputs
FileTypes == {"image/png", "application/pdf", "text/plain"}
ApiKeys   == {EmptyStr, Str(<<"s","k">>)}
SessionResponses ==
    {Null, Response(Null), Response(Str(<<"n","o","n","e">>)),
     Response(Str(<<"{", "}">>)), Response(Str(B_undecodable)),
     Response(Str(<<"o","k",":"," ">> \o B_scenario)),
     Response(Str(B_vendor)), Response(Str(<<"o","k",":"," ">> \o B_unquoted))}

----------------------------------------------------------------------------
(* Specifications *)

Fresh ==
    /\ extracted_data = Unset
    /\ processing_complete = FALSE

\* main.py lines 18-20, before the first interaction
Init ==
    /\ Fresh
    /\ op = "init"
    /\ arg = Null
    /\ ret = Ok(Null)

\* a run of main() with no file in the uploader
MainNoUpload ==
    /\ op' = "main"
    /\ arg' = Null
    /\ ret' = Ok(Displayed(processing_complete, extracted_data))
    /\ UNCHANGED <<extracted_data, processing_complete>>

\* a run of main() with an uploaded file: process_uploaded_file, and the rerun
\* that line 92 triggers
ProcessUploadedFile ==
    \E ftype \in FileTypes, clicked \in BOOLEAN, api_key \in ApiKeys,
       api_response \in SessionResponses :
        /\ op' = "process_uploaded_file"
        /\ arg' = [ftype |-> ftype, clicked |-> clicked, api_key |-> api_key,
                   api_response |-> api_response,
                   extracted_data |-> extracted_data]   \* the session at entry
        /\ ret' = IF Parses(ftype, clicked, api_key, api_response)
                  THEN parse_extraction_result(api_response)   \* line 78
                  ELSE Ok(Null)
        /\ IF Parses(ftype, clicked, api_key, api_response) /\ ShouldStore(ret')
           THEN /\ extracted_data' = StoredRecord(extracted_data, ret'.val)
                /\ processing_complete' = TRUE                 \* line 83
           ELSE UNCHANGED <<extracted_data, processing_complete>>

Next == MainNoUpload \/ ProcessUploadedFile

Spec == Init /\ [][Next]_vars

\* parse_extraction_result applied to one response
InitParse ==
    /\ Fresh
    /\ op = "call"
    /\ arg \in ApiResponses
    /\ ret = Ok(Null)

CallParse ==
    /\ op = "call"
    /\ op' = "parse_extraction_result"
    /\ ret' = parse_extraction_result(arg)
    /\ UNCHANGED <<arg, extracted_data, processing_complete>>

NextParse == CallParse

SpecParse == InitParse /\ [][NextParse]_vars

\* validate_invoice_data applied to one decoded map
InitValidate ==
    /\ Fresh
    /\ op = "call"
    /\ arg \in DecodedMaps
    /\ ret = Ok(Null)

CallValidate ==
    /\ op = "call"
    /\ op' = "validate_invoice_data"
    /\ ret' = validate_invoice_data(arg)
    /\ UNCHANGED <<arg, extracted_data, processing_complete>>

NextValidate == CallValidate

SpecValidate == InitValidate /\ [][NextValidate]_vars

\* the data model: from_dict on a loosely-typed map, then to_dict on the record
InitModel ==
    /\ Fresh
    /\ op = "call"
    /\ arg \in LooseMaps
    /\ ret = Ok(Null)

CallFromDict ==
    /\ op = "call"
    /\ op' = "from_dict"
    /\ ret' = from_dict(arg)
    /\ UNCHANGED <<arg, extracted_data, processing_complete>>

CallToDict ==
    /\ op = "from_dict"
    /\ ~Raised(ret)
    /\ op' = "to_dict"
    /\ arg' = ret.val
    /\ ret' = to_dict(ret.val)
    /\ UNCHANGED <<extracted_data, processing_complete>>

\* the vendor, the billing party and the line items of a record
SubRecords(self) ==
    {self.vendor, self.billing_to} \cup {self.line_items.v[i] : i \in 1..Len(self.line_items.v)}

\* is_empty() on one sub-record of the record from_dict built
CallIsEmpty ==
    /\ op = "from_dict"
    /\ ~Raised(ret)
    /\ \E x \in SubRecords(ret.val) :
          /\ arg' = x
          /\ ret' = is_empty(x)
    /\ op' = "is_empty"
    /\ UNCHANGED <<extracted_data, processing_complete>>

NextModel == CallFromDict \/ CallToDict \/ CallIsEmpty

SpecModel == InitModel /\ [][NextModel]_vars

\* the normalizer: clean_string and clean_currency applied to one value, and
\* applied again to their own result
InitNormalize ==
    /\ Fresh
    /\ op = "call"
    /\ arg \in NormalizerInputs
    /\ ret = Ok(Null)

CallCleanString ==
    /\ op = "call"
    /\ op' = "clean_string"
    /\ ret' = Ok(Str(clean_string(arg)))
    /\ UNCHANGED <<arg, extracted_data, processing_complete>>

CallCleanStringAgain ==
    /\ op = "clean_string"
    /\ op' = "clean_string_again"
    /\ arg' = [value |-> arg, once |-> ret.val]
    /\ ret' = Ok(Str(clean_string(ret.val)))
    /\ UNCHANGED <<extracted_data, processing_complete>>

CallCleanCurrency ==
    /\ op = "call"
    /\ op' = "clean_currency"
    /\ ret' = Ok(Str(clean_currency(arg)))
    /\ UNCHANGED <<arg, extracted_data, processing_complete>>

CallCleanCurrencyAgain ==
    /\ op = "clean_currency"
    /\ op' = "clean_currency_again"
    /\ arg' = [value |-> arg, once |-> ret.val]
    /\ ret' = Ok(Str(clean_currency(ret.val)))
    /\ UNCHANGED <<extracted_data, processing_complete>>

NextNormalize ==
    \/ CallCleanString
    \/ CallCleanStringAgain
    \/ CallCleanCurrency
    \/ CallCleanCurrencyAgain

SpecNormalize == InitNormalize /\ [][NextNormalize]_vars

\* display_line_items: the unit price of one line item, formatted
InitFormat ==
    /\ Fresh
    /\ op = "call"
    /\ arg \in DisplayedItems
    /\ ret = Ok(Null)

\* components.py line 99: format_currency(item.get('unit_price', ''), currency)
CallFormatCurrency ==
    /\ op = "call"
    /\ \E currency \in CurrencyCodes :
          /\ arg' = [amount |-> Get(arg, k_unit_price, EmptyStr), currency |-> currency]
          /\ ret' = format_currency(Get(arg, k_unit_price, EmptyStr), currency)
    /\ op' = "format_currency"
    /\ UNCHANGED <<extracted_data, processing_complete>>

NextFormat == CallFormatCurrency

SpecFormat == InitFormat /\ [][NextFormat]_vars

\* validation: a record built from a loosely-typed map by from_dict or by the
\* parser, or built by the constructor, then validate() on the record
InitRecord ==
    /\ Fresh
    /\ op = "call"
    /\ arg \in RecordMaps
    /\ ret = Ok(Null)

\* data_parser.py lines 53-98: the record after the parser's field assignments
CallFieldAssignment ==
    /\ op = "call"
    /\ op' = "field_assignment"
    /\ ret' = AssignedInvoice(arg)
    /\ UNCHANGED <<arg, extracted_data, processing_complete>>

\* InvoiceData(): the record of the constructor
CallConstructor ==
    /\ op = "call"
    /\ op' = "InvoiceData"
    /\ arg' = Null
    /\ ret' = Ok(InvoiceData)
    /\ UNCHANGED <<extracted_data, processing_complete>>

\* ret holds a record: built by from_dict, by the parser or by the constructor
HoldsRecord == op \in {"from_dict", "field_assignment", "InvoiceData"} /\ ~Raised(ret)

CallRecordValidate ==
    /\ HoldsRecord
    /\ op' = "validate"
    /\ arg' = ret.val
    /\ ret' = validate(ret.val)
    /\ UNCHANGED <<extracted_data, processing_complete>>

\* the record as it is, or with vendor = None (the field is Optional[VendorInfo])
WithOrWithoutVendor(self) == {self, [self EXCEPT !.vendor = Null]}

CallIsComplete ==
    /\ HoldsRecord
    /\ \E self \in WithOrWithoutVendor(ret.val) :
          /\ arg' = self
          /\ ret' = is_complete(self)
    /\ op' = "is_complete"
    /\ UNCHANGED <<extracted_data, processing_complete>>

CallCompletionRate ==
    /\ HoldsRecord
    /\ \E self \in WithOrWithoutVendor(ret.val) :
          /\ arg' = self
          /\ ret' = _calculate_completion_rate(self)
    /\ op' = "_calculate_completion_rate"
    /\ UNCHANGED <<extracted_data, processing_complete>>

\* is_complete() of a record validate() has returned a list for
CallIsCompleteValidated ==
    /\ op = "validate"
    /\ ~Raised(ret)
    /\ op' = "validate, is_complete"
    /\ arg' = [self |-> arg, errors |-> ret.val]
    /\ ret' = is_complete(arg)
    /\ UNCHANGED <<extracted_data, processing_complete>>

NextRecord ==
    \/ CallIsCompleteValidated
    \/ CallFromDict
    \/ CallFieldAssignment
    \/ CallConstructor
    \/ CallRecordValidate
    \/ CallIsComplete
    \/ CallCompletionRate

SpecRecord == InitRecord /\ [][NextRecord]_vars

----------------------------------------------------------------------------
(* Properties *)

StringKeys   == {k_invoice_number, k_invoice_date, k_due_date, k_currency, k_tax_rate}
CurrencyKeys == {k_subtotal, k_tax_amount, k_total_amount}
VendorKeys   == {k_name, k_address, k_phone, k_email}
BillingKeys  == {k_name, k_address}

\* the source map holds vendor, billing_to and line_items of the expected
\* shapes (a map, a map, a sequence of maps) or not at all
WellShaped(data) ==
    /\ k_vendor \in DOMAIN data.v => IsMap(data.v[k_vendor])
    /\ k_billing_to \in DOMAIN data.v => IsMap(data.v[k_billing_to])
    /\ k_line_items \in DOMAIN data.v =>
          /\ data.v[k_line_items].t = "list"
          /\ \A i \in 1..Len(data.v[k_line_items].v) : IsMap(data.v[k_line_items].v[i])

Without(data, k) == Map([x \in DOMAIN data.v \ {k} |-> data.v[x]])

IsValidated == op = "validate_invoice_data"

\* C1: for every decoded object (stated for those whose vendor, billing_to and
\* line_items have the expected shape), the map returned by
\* validate_invoice_data holds invoice_number, invoice_date, due_date, currency
\* and tax_rate equal to clean_string of the source value, and subtotal,
\* tax_amount and total_amount equal to clean_currency of the source value.
C1_ScalarsNormalized ==
    (IsValidated /\ WellShaped(arg)) =>
        /\ ~Raised(ret)
        /\ IsMap(ret.val)
        /\ \A k \in StringKeys :
              /\ k \in DOMAIN ret.val.v
              /\ ret.val.v[k] = Str(clean_string(Get(arg, k, EmptyStr)))
        /\ \A k \in CurrencyKeys :
              /\ k \in DOMAIN ret.val.v
              /\ ret.val.v[k] = Str(clean_currency(Get(arg, k, EmptyStr)))

\* the cleaned sub-record the claim expects for a source sub-map
CleanedSub(src, keys) == [f \in keys |-> Str(clean_string(Get(src, f, EmptyStr)))]

SubRecordAsClaimed(k, keys) ==
    LET src == Get(arg, k, EmptyMap)
    IN IF ~Truthy(src) \/ \A f \in keys : CleanedSub(src, keys)[f] = EmptyStr
       THEN /\ k \notin DOMAIN ret.val.v
            /\ ret.val = validate_invoice_data(Without(arg, k)).val
       ELSE /\ k \in DOMAIN ret.val.v
            /\ ret.val.v[k] = Map(CleanedSub(src, keys))

\* C2: an absent or falsy vendor (billing_to) and a vendor (billing_to) map
\* with only empty fields give the same output, without the key; a sub-map
\* with a field that is non-empty after cleaning gives the sub-record with
\* every field cleaned by clean_string.  Stated for source maps without line
\* items, so that only the sub-records decide it.
C2_SubRecords ==
    (IsValidated /\ WellShaped(arg) /\ ~Truthy(Get(arg, k_line_items, EmptyList))) =>
        /\ IsMap(ret.val)
        /\ SubRecordAsClaimed(k_vendor, VendorKeys)
        /\ SubRecordAsClaimed(k_billing_to, BillingKeys)

\* the line items the claim expects in the output: one cleaned item per map
\* entry, in source order, the all-empty ones dropped by the serialization
ExpectedItems(src) ==
    LET maps    == SelectSeq(src, IsMap)
        cleaned == [i \in 1..Len(maps) |-> CleanedItem(maps[i])]
    IN SelectSeq(cleaned, LAMBDA it : \E f \in DOMAIN it.v : it.v[f] # EmptyStr)

ItemsOf(m) == IF k_line_items \in DOMAIN m.v THEN m.v[k_line_items] ELSE EmptyList

\* C3: for a source line_items sequence the output line_items holds one
\* cleaned item per source entry that is a map, in source order, entries that
\* are not maps skipped and all-empty items removed at serialization.  Stated
\* for source maps without vendor and billing_to, so that only the line items
\* decide it.
C3_LineItems ==
    (/\ IsValidated
     /\ Get(arg, k_line_items, Null).t = "list"
     /\ ~Truthy(Get(arg, k_vendor, EmptyMap))
     /\ ~Truthy(Get(arg, k_billing_to, EmptyMap))) =>
        /\ IsMap(ret.val)
        /\ ItemsOf(ret.val) = List(ExpectedItems(arg.v[k_line_items].v))

IsParsed == op = "parse_extraction_result"

\* the response carries a text
HasText(a) == ~Raised(ContentOf(a)) /\ ContentOf(a).val.t = "str"
TextOf(a)  == ContentOf(a).val.v

\* a '{' with a later '}'
HasSpan(t) == \E i \in 1..Len(t), j \in 1..Len(t) : i < j /\ t[i] = "{" /\ t[j] = "}"

\* C4: when the text holds no span from a '{' to a later '}',
\* parse_extraction_result returns exactly {raw_response: text}, the text
\* unmodified, and does not raise.
C4_NoSpanGivesRaw ==
    (IsParsed /\ HasText(arg) /\ ~HasSpan(TextOf(arg))) =>
        /\ ~Raised(ret)
        /\ ret.val = Map(k_raw_response :> Str(TextOf(arg)))

C4_Witness ==
    /\ IsParsed /\ HasText(arg) /\ ~HasSpan(TextOf(arg))
    /\ Has(TextOf(arg), "{") /\ Has(TextOf(arg), "}")
    /\ ret.val = Map(k_raw_response :> Str(TextOf(arg)))

\* the text from its first '{' to its last '}'
GreedySpan(t) ==
    LET first == CHOOSE i \in 1..Len(t) : t[i] = "{" /\ \A k \in 1..(i - 1) : t[k] # "{"
        last  == CHOOSE j \in 1..Len(t) : t[j] = "}" /\ \A k \in (j + 1)..Len(t) : t[k] # "}"
    IN SubSeq(t, first, last)

\* what decoding and mapping one candidate gives
DecodedAs(span) ==
    LET d == json_loads(span)
    IN IF Raised(d) THEN Null ELSE validate_invoice_data(d.val).val

\* C5: the candidate decoded is the text from its first '{' to its last '}'
\* (greedy, across newlines): prose before and after it is ignored, and a text
\* holding two objects is decoded as one span, not as its first object.
C5_GreedySpan ==
    (IsParsed /\ HasText(arg) /\ HasSpan(TextOf(arg))) =>
        /\ ret.val = DecodedAs(GreedySpan(TextOf(arg)))
        /\ \A pre \in Prose, post \in Prose, body \in ObjectTexts \cup BadSpans :
              TextOf(arg) = pre \o body \o post =>
                 ret = parse_extraction_result(Response(Str(body)))
        /\ \A a \in ObjectTexts, b \in ObjectTexts :
              TextOf(arg) = a \o <<" ">> \o b =>
                 /\ ret.val = Null
                 /\ DecodedAs(a) # Null

C5_Witness ==
    /\ IsParsed /\ HasText(arg)
    /\ TextOf(arg) = <<"o","k",":"," ">> \o B_scenario \o <<"\n">>
    /\ IsMap(ret.val)
    /\ ret.val.v[k_invoice_number] = Str(S_INV1)
    /\ ret.val.v[k_total_amount] = Str(<<"9","9",".","9","9">>)

\* the attempt reaches the parser with a text whose span does not decode
DecodeFails(a) ==
    /\ Parses(a.ftype, a.clicked, a.api_key, a.api_response)
    /\ HasText(a.api_response)
    /\ HasSpan(TextOf(a.api_response))
    /\ Raised(json_loads(GreedySpan(TextOf(a.api_response))))

\* C6: when the located span does not decode, parse_extraction_result returns
\* None after signalling an error and process_uploaded_file assigns neither
\* extracted_data nor processing_complete.
C6_DecodeFailureStoresNothing ==
    [][(op' = "process_uploaded_file" /\ DecodeFails(arg')) =>
          /\ ret' = Signalled("error", Null)
          /\ extracted_data' = extracted_data
          /\ processing_complete' = processing_complete]_vars

C6_Witness ==
    /\ op = "process_uploaded_file" /\ DecodeFails(arg)
    /\ ret = Signalled("error", Null)
    /\ processing_complete
    /\ IsMap(extracted_data)

\* an exception occurs while the decoded map is mapped or serialized
MappingRaises(data) ==
    \/ Raised(AssignedInvoice(data))
    \/ Raised(to_dict(AssignedInvoice(data).val))

\* C7: validate_invoice_data does not raise; when an exception occurs while it
\* maps or serializes, it signals a warning and returns the decoded map itself.
C7_ExceptionReturnsDecodedMap ==
    IsValidated =>
        /\ ~Raised(ret)
        /\ MappingRaises(arg) => ret = Signalled("warning", arg)

C7_Witness ==
    /\ IsValidated
    /\ Get(arg, k_vendor, Null) = Map(k_name :> Str(S_acme))
    /\ MappingRaises(arg)
    /\ ret = Signalled("warning", arg)

OutcomeNone == ret.val = Null
OutcomeRaw  == HasText(arg) /\ ret.val = Map(k_raw_response :> Str(TextOf(arg)))
OutcomeInvoiceMap ==
    /\ HasText(arg) /\ HasSpan(TextOf(arg))
    /\ IsMap(ret.val)
    /\ ret.val = DecodedAs(GreedySpan(TextOf(arg)))

\* C8: parse_extraction_result never raises, and every call ends in exactly
\* one of: None, the map {raw_response: text}, an invoice map.
C8_NeverRaises ==
    IsParsed =>
        /\ ~Raised(ret)
        /\ OutcomeNone \/ OutcomeRaw \/ OutcomeInvoiceMap
        /\ ~(OutcomeNone /\ OutcomeRaw)
        /\ ~(OutcomeNone /\ OutcomeInvoiceMap)
        /\ ~(OutcomeRaw /\ OutcomeInvoiceMap)

C8_Witness ==
    /\ IsParsed
    /\ arg = Response(Num(5))
    /\ ~Raised(ret)
    /\ OutcomeNone

ScalarFieldsOf(r) ==
    <<r.invoice_number, r.invoice_date, r.due_date, r.currency,
      r.subtotal, r.tax_amount, r.tax_rate, r.total_amount>>

MetadataOf(r) == <<r.raw_response, r.extraction_confidence, r.processing_time>>

\* r2 has the value of r in every non-empty field of r; the metadata block
\* counts as non-empty when its raw text is
SameNonEmpty(r, r2) ==
    /\ \A i \in 1..Len(ScalarFieldsOf(r)) :
          Truthy(ScalarFieldsOf(r)[i]) => ScalarFieldsOf(r2)[i] = ScalarFieldsOf(r)[i]
    /\ ~IsEmptyObj(r.vendor) => r2.vendor = r.vendor
    /\ ~IsEmptyObj(r.billing_to) => r2.billing_to = r.billing_to
    /\ r2.line_items.v = SelectSeq(r.line_items.v, LAMBDA it : ~IsEmptyObj(it))
    /\ Truthy(r.raw_response) => MetadataOf(r2) = MetadataOf(r)

\* C9: for the record r = from_dict(m) and s = r.to_dict(), from_dict(s) has
\* the value of r in every non-empty field and from_dict(s).to_dict() = s.
C9_RoundTrip ==
    (op = "to_dict" /\ ~Raised(ret)) =>
        LET again == from_dict(ret.val)
        IN /\ ~Raised(again)
           /\ SameNonEmpty(arg, again.val)
           /\ to_dict(again.val) = ret

\* the value under k is neither absent nor of the shape from_dict expects
WrongShape(data, k) ==
    /\ k \in DOMAIN data.v
    /\ IF k = k_line_items THEN data.v[k].t \notin {"list", "null"}
                           ELSE data.v[k].t \notin {"map", "null"}

\* C10: from_dict never raises on a loosely-typed map, and a vendor,
\* billing_to, line_items or _metadata value of the wrong shape is treated as
\* absent.
C10_FromDictTotal ==
    op = "from_dict" =>
        /\ ~Raised(ret)
        /\ \A k \in {k_vendor, k_billing_to, k_line_items, k_metadata} :
              WrongShape(arg, k) => ret = from_dict(Without(arg, k))

----------------------------------------------------------------------------
(* The data model's emptiness and serialization *)

\* every field of the sub-record is ""
AllFieldsEmptyStr(x) == \A f \in DOMAIN x.v : x.v[f] = EmptyStr

\* every value of the emitted item map is ""
AllValuesEmptyStr(m) == \A k \in DOMAIN m.v : m.v[k] = EmptyStr

\* C11: a VendorInfo, BillingInfo or LineItem whose fields are all "" reports
\* is_empty() true, and to_dict does not emit it: no vendor key and no
\* billing_to key for an all-empty sub-record, and no emitted line item with
\* all four fields empty.
C11_EmptyNeverEmitted ==
    /\ (op = "is_empty" /\ AllFieldsEmptyStr(arg)) => ret = Ok(Bool(TRUE))
    /\ (op = "to_dict" /\ ~Raised(ret)) =>
          /\ AllFieldsEmptyStr(arg.vendor) => k_vendor \notin DOMAIN ret.val.v
          /\ AllFieldsEmptyStr(arg.billing_to) => k_billing_to \notin DOMAIN ret.val.v
          /\ k_line_items \in DOMAIN ret.val.v =>
                \A i \in 1..Len(ret.val.v[k_line_items].v) :
                    ~AllValuesEmptyStr(ret.val.v[k_line_items].v[i])

\* to_dict has serialized a record whose vendor and billing party are all
\* empty and whose line items hold an all-empty item next to a filled one
C11_Witness ==
    /\ op = "to_dict"
    /\ ~Raised(ret)
    /\ AllFieldsEmptyStr(arg.vendor)
    /\ AllFieldsEmptyStr(arg.billing_to)
    /\ \E i, j \in 1..Len(arg.line_items.v) :
          /\ AllFieldsEmptyStr(arg.line_items.v[i])
          /\ ~AllFieldsEmptyStr(arg.line_items.v[j])
    /\ k_line_items \in DOMAIN ret.val.v

\* the value is a string of whitespace characters only ("" included)
IsBlank(x) == x.t = "str" /\ \A i \in 1..Len(x.v) : x.v[i] \in Whitespace

AllFieldsBlank(x) == \A f \in DOMAIN x.v : IsBlank(x.v[f])

\* C12: is_empty() of a VendorInfo, BillingInfo or LineItem is true exactly
\* when every field is the empty string or whitespace only; a sub-record
\* with one whitespace-only field and the others empty is empty.
C12_EmptyIffBlank ==
    (op = "is_empty" /\ ~Raised(ret)) => ret.val = Bool(AllFieldsBlank(arg))

\* the record's line items that are not all-empty, in the record's order
FilledItems(self) == SelectSeq(self.line_items.v, LAMBDA it : ~AllFieldsEmptyStr(it))

\* C13: in the output of to_dict the line_items key is present only when it
\* holds at least one item (omitted for a record with no line items or with
\* empty ones only), and it holds the record's non-empty line items in the
\* record's order, none reordered or duplicated.
C13_LineItemsKey ==
    (op = "to_dict" /\ ~Raised(ret)) =>
        LET kept == FilledItems(arg)
        IN /\ k_line_items \in DOMAIN ret.val.v <=> kept # <<>>
           /\ k_line_items \in DOMAIN ret.val.v =>
                 ret.val.v[k_line_items] = List([i \in 1..Len(kept) |-> ObjToDict(kept[i])])

----------------------------------------------------------------------------
(* The normalizer *)

\* C14: for every input the output of clean_currency consists of digits with
\* at most one '.', and holds no currency symbol, letter, comma or second
\* decimal point ("1.234.56" and "1,2,3" included).
C14_DigitsOnePoint ==
    op = "clean_currency" =>
        /\ \A i \in 1..Len(ret.val.v) : ret.val.v[i] \in Digit \cup {"."}
        /\ CountOf(ret.val.v, ".") <= 1

\* C15: clean_currency is idempotent: applying it to its own result returns
\* that result.
C15_CurrencyIdempotent ==
    op = "clean_currency_again" => ret.val = arg.once

\* clean_currency was applied again to a result in which a decimal comma had
\* become a point and a symbol had been dropped
C15_Witness ==
    /\ op = "clean_currency_again"
    /\ arg.value.t = "str"
    /\ Has(arg.value.v, ",") /\ Has(arg.value.v, "$")
    /\ Has(arg.once.v, ".")
    /\ ret.val = arg.once

\* the text with every character other than digits, ',' and '.' removed
SeparatorsAndDigits(x) == SelectSeq(PyStr(x), LAMBDA c : c \in Digit \cup {",", "."})

\* the number of characters after the last ','
AfterLastComma(c) ==
    Len(c) - (CHOOSE i \in 1..Len(c) : c[i] = "," /\ \A j \in (i + 1)..Len(c) : c[j] # ",")

\* C16: after every character other than digits, ',' and '.' is removed,
\* clean_currency resolves the separators so: both ',' and '.' present, the
\* commas are removed; only ',' present with at most 2 characters after the
\* last ',', the commas become '.'; only ',' present with more than 2
\* characters after the last ',', the commas are removed; only '.' or no
\* separator, unchanged. "1,234.56" gives "1234.56" and "45,90" gives "45.90".
C16_SeparatorRules ==
    (op = "clean_currency" /\ arg.t # "null") =>
        LET c == SeparatorsAndDigits(arg)
            noCommas == SelectSeq(c, LAMBDA ch : ch # ",")
            commasAsPoints == [i \in 1..Len(c) |-> IF c[i] = "," THEN "." ELSE c[i]]
        IN /\ ret.val.v =
                 IF CountOf(c, ",") > 0 /\ CountOf(c, ".") > 0 THEN noCommas
                 ELSE IF CountOf(c, ",") > 0
                      THEN IF AfterLastComma(c) <= 2 THEN commasAsPoints ELSE noCommas
                      ELSE c
           /\ arg = Str(S_money_plain) => ret.val = Str(<<"1","2","3","4",".","5","6">>)
           /\ arg = Str(S_euro) => ret.val = Str(<<"4","5",".","9","0">>)

\* clean_currency has turned "45,90" into "45.90"
C16_Witness ==
    /\ op = "clean_currency"
    /\ arg = Str(S_euro)
    /\ ret.val = Str(<<"4","5",".","9","0">>)

\* no leading, no trailing and no two adjacent whitespace characters
Tidy(s) ==
    /\ s # <<>> => s[1] \notin Whitespace /\ s[Len(s)] \notin Whitespace
    /\ \A i \in 1..(Len(s) - 1) : ~(s[i] \in Whitespace /\ s[i + 1] \in Whitespace)

\* C17: clean_string is idempotent, its result has no leading whitespace, no
\* trailing whitespace and no run of two or more whitespace characters, and
\* a null input gives "".
C17_StringIdempotentTidy ==
    /\ op = "clean_string_again" => ret.val = arg.once
    /\ op = "clean_string" =>
          /\ Tidy(ret.val.v)
          /\ arg = Null => ret.val = EmptyStr

\* clean_string was applied again to the result of cleaning a text that
\* began with whitespace and held a run of whitespace between two words
C17_Witness ==
    /\ op = "clean_string_again"
    /\ arg.value.t = "str"
    /\ Len(arg.value.v) >= 4
    /\ arg.value.v[1] \in Whitespace
    /\ \E i \in 2..(Len(arg.value.v) - 2) :
          /\ arg.value.v[i] \notin Whitespace
          /\ arg.value.v[i + 1] \in Whitespace /\ arg.value.v[i + 2] \in Whitespace
          /\ \E j \in (i + 3)..Len(arg.value.v) : arg.value.v[j] \notin Whitespace
    /\ arg.once # arg.value
    /\ ret.val = arg.once

----------------------------------------------------------------------------
(* Display formatting *)

\* the amount is a number, or a text of digits with at most one point
\* (surrounding whitespace aside)
ParsesAsNumber(x) ==
    \/ x.t \in {"num", "bool"}
    \/ /\ x.t = "str"
       /\ LET s == Strip(x.v)
          IN /\ SelectSeq(s, LAMBDA c : c \in Digit \cup {"."}) = s
             /\ Len(SelectSeq(s, LAMBDA c : c = ".")) <= 1
             /\ SelectSeq(s, LAMBDA c : c \in Digit) # <<>>

\* the amount in hundredths, its decimals beyond the second dropped
Hundredths(x) ==
    CASE x.t = "num"  -> 100 * (IF x.v < 0 THEN -x.v ELSE x.v)
      [] x.t = "bool" -> IF x.v THEN 100 ELSE 0
      [] x.t = "str"  ->
            LET s == Strip(x.v)
                before == Cardinality({i \in 1..Len(s) : \A j \in 1..i : s[j] # "."})
                digits == SelectSeq(s, LAMBDA c : c \in Digit) \o <<"0", "0">>
            IN IntOf(SubSeq(digits, 1, before + 2))

\* t is a number with a comma before every group of three digits, a point
\* and two decimals, worth n hundredths
ShowsHundredths(t, n) ==
    LET m == Len(t) - 3
    IN /\ m >= 1
       /\ t[m + 1] = "."
       /\ t[m + 2] \in Digit /\ t[m + 3] \in Digit
       /\ \A i \in 1..m : IF (m - i) % 4 = 3 THEN t[i] = "," ELSE t[i] \in Digit
       /\ IntOf(SelectSeq(t, LAMBDA c : c \in Digit)) = n

\* the currency code and the text with a space between them, as displayed:
\* without whitespace at either end
CodeThen(currency, text) == Strip(currency \o <<" ">> \o text)

\* t with the currency code and the space after it removed
AfterCode(currency, t) ==
    IF currency = <<>> THEN t ELSE SubSeq(t, Len(currency) + 2, Len(t))

\* C18: format_currency never raises for an amount taken from an invoice
\* map: "N/A" for an empty amount, the currency code followed by the amount
\* with thousands separators and two decimals when the amount parses as a
\* number, the currency code followed by the original text when it does not.
C18_FormatNeverRaises ==
    op = "format_currency" =>
        /\ ~Raised(ret)
        /\ IF ~Truthy(arg.amount) THEN ret.val = Str(<<"N", "/", "A">>)
           ELSE IF ParsesAsNumber(arg.amount)
                THEN /\ ret.val.v = CodeThen(arg.currency, AfterCode(arg.currency, ret.val.v))
                     /\ ShowsHundredths(
                            SelectSeq(AfterCode(arg.currency, ret.val.v), LAMBDA c : c # "-"),
                            Hundredths(arg.amount))
                ELSE ret.val.v = CodeThen(arg.currency, PyStr(arg.amount))

----------------------------------------------------------------------------
(* Validation *)

\* the messages validate returned
Errors == {ret.val.v[i] : i \in 1..Len(ret.val.v)}

\* validate returned a list for a record whose field is a string
Validated(field) == op = "validate" /\ ~Raised(ret) /\ field.t = "str"

\* what remains of the text after every character other than digits and '.'
\* is removed
DigitsAndPoints(s) == SelectSeq(s, LAMBDA c : c \in Digit \cup {"."})

\* C19: validate() reports "Invoice number is required" exactly when
\* invoice_number is empty, "Total amount is required" exactly when
\* total_amount is empty, and "Total amount is not a valid number" exactly
\* when total_amount is non-empty and what remains after removing every
\* character other than digits and '.' is not a decimal number; invoice_number
\* "" with total_amount "abc" gets the first and the third.
C19_RequiredAndNumeric ==
    /\ Validated(arg.invoice_number) =>
          (Str(Messages.invoice_number_required) \in Errors <=> arg.invoice_number = EmptyStr)
    /\ Validated(arg.total_amount) =>
          /\ Str(Messages.total_amount_required) \in Errors <=> arg.total_amount = EmptyStr
          /\ Str(Messages.total_amount_invalid) \in Errors <=>
                /\ arg.total_amount # EmptyStr
                /\ ~ParsesAsNumber(Str(DigitsAndPoints(arg.total_amount.v)))
    /\ (Validated(arg.total_amount) /\ arg.invoice_number = EmptyStr
          /\ arg.total_amount = Str(S_abc)) =>
          {Str(Messages.invoice_number_required), Str(Messages.total_amount_invalid)} \subseteq Errors

\* validate has reported both errors for invoice_number "" and total_amount "abc"
C19_Witness ==
    /\ op = "validate"
    /\ arg.invoice_number = EmptyStr
    /\ arg.total_amount = Str(S_abc)
    /\ ~Raised(ret)
    /\ {Str(Messages.invoice_number_required), Str(Messages.total_amount_invalid)} \subseteq Errors

\* the positions of s that hold a date separator
SeparatorsAt(s) == {i \in 1..Len(s) : s[i] \in {"/", "-"}}

\* s is day/month/year or year/month/day: two separators, digits between
\* them, a day and a month of 1 or 2 digits, a year of 2 or 4 digits (4 when
\* the year comes first)
OfDateForm(s) ==
    /\ Cardinality(SeparatorsAt(s)) = 2
    /\ \A i \in 1..Len(s) : s[i] \in Digit \cup {"/", "-"}
    /\ LET i == CHOOSE k \in SeparatorsAt(s) : \A m \in SeparatorsAt(s) : k <= m
           j == CHOOSE k \in SeparatorsAt(s) : \A m \in SeparatorsAt(s) : k >= m
           first  == i - 1
           second == j - i - 1
           third  == Len(s) - j
       IN \/ first \in {1, 2} /\ second \in {1, 2} /\ third \in {2, 4}
          \/ first = 4 /\ second \in {1, 2} /\ third \in {1, 2}

\* C20: validate() appends the date-format warning for invoice_date (resp.
\* due_date) exactly when the field is non-empty and not of the form
\* day/month/year or year/month/day with '/' or '-' separators, a 1 or 2
\* digit day and month and a 2 or 4 digit year; an empty date gives no
\* warning, a 3 digit year or extra characters after the date give one.
C20_DateWarning ==
    /\ Validated(arg.invoice_date) =>
          (Str(Messages.invoice_date_format) \in Errors <=>
              arg.invoice_date # EmptyStr /\ ~OfDateForm(arg.invoice_date.v))
    /\ Validated(arg.due_date) =>
          (Str(Messages.due_date_format) \in Errors <=>
              arg.due_date # EmptyStr /\ ~OfDateForm(arg.due_date.v))

\* the messages of ret that name a line item, in the order returned
ItemErrors == SelectSeq(ret.val.v, LAMBDA e : SubSeq(e.v, 1, Len(Messages.line_item))
                                               = Messages.line_item)

\* the errors the item at 0-based position i is to get
ErrorsOfItem(item, i) ==
    (IF item.v.description = EmptyStr
     THEN <<Str(Messages.line_item \o DigitsOf(i + 1) \o Messages.description_missing)>>
     ELSE <<>>)
    \o (IF /\ item.v.unit_price # EmptyStr
            /\ ~ParsesAsNumber(Str(DigitsAndPoints(item.v.unit_price.v)))
         THEN <<Str(Messages.line_item \o DigitsOf(i + 1) \o Messages.unit_price_invalid)>>
         ELSE <<>>)

\* every line item of the record has a string description and unit price
StringItems(self) ==
    \A i \in 1..Len(self.line_items.v) :
        /\ self.line_items.v[i].v.description.t = "str"
        /\ self.line_items.v[i].v.unit_price.t = "str"

\* C21: for the line item at 0-based position i, validate() appends an error
\* naming item i+1 when its description is empty, and one naming item i+1
\* when its unit_price is non-empty and not convertible to a decimal number
\* once every character other than digits and '.' is removed; an item with a
\* description and an empty or convertible unit_price adds none, and the
\* item errors come in item order.
C21_LineItemErrors ==
    (op = "validate" /\ ~Raised(ret) /\ StringItems(arg)) =>
        ItemErrors = Cat([i \in 1..Len(arg.line_items.v) |->
                            ErrorsOfItem(arg.line_items.v[i], i - 1)])

\* validate has returned for a record whose first item has a description and
\* a convertible price and whose second item lacks a description and has a
\* price that is not convertible
C21_Witness ==
    /\ op = "validate"
    /\ ~Raised(ret)
    /\ Len(arg.line_items.v) = 2
    /\ StringItems(arg)
    /\ ErrorsOfItem(arg.line_items.v[1], 0) = <<>>
    /\ arg.line_items.v[1].v.unit_price # EmptyStr
    /\ Len(ErrorsOfItem(arg.line_items.v[2], 1)) = 2
    /\ Len(ItemErrors) = 2

\* C22: validate() never raises and returns a list (possibly empty) for every
\* record of the constructor, of from_dict on a loosely-typed map (scalar
\* fields that are numbers included) and of the parser's field assignment.
C22_ValidateNeverRaises ==
    op = "validate" => ~Raised(ret) /\ ret.val.t = "list"

----------------------------------------------------------------------------
(* Completeness *)

\* the record has a VendorInfo or no vendor, a list of LineItem, and strings
\* in the fields is_complete and the completion rate read
TypedRecord(self) ==
    /\ self.vendor = Null \/ self.vendor.t = "VendorInfo"
    /\ self.line_items.t = "list"
    /\ \A i \in 1..Len(self.line_items.v) : self.line_items.v[i].t = "LineItem"
    /\ self.invoice_number.t = "str"
    /\ self.invoice_date.t = "str"
    /\ self.total_amount.t = "str"

\* the record has a vendor with a field that is not ""
FilledVendor(self) == self.vendor # Null /\ ~AllFieldsEmptyStr(self.vendor)

\* C23: is_complete() is true exactly when invoice_number and total_amount
\* are both non-empty and the vendor is non-empty or the record has at least
\* one line item; with both fields set, an empty vendor and one non-empty
\* line item give true, an empty vendor and zero line items give false.
C23_IsComplete ==
    (op = "is_complete" /\ TypedRecord(arg)) =>
        LET both == arg.invoice_number # EmptyStr /\ arg.total_amount # EmptyStr
        IN /\ ~Raised(ret)
           /\ ret.val = Bool(TRUE) <=>
                 both /\ (FilledVendor(arg) \/ Len(arg.line_items.v) >= 1)
           /\ (both /\ ~FilledVendor(arg) /\ FilledItems(arg) # <<>>) => ret.val = Bool(TRUE)
           /\ (both /\ ~FilledVendor(arg) /\ arg.line_items.v = <<>>) => ret.val = Bool(FALSE)

\* the fields the completion rate counts: three scalars, the vendor's four
\* fields when the record has a vendor object, and the line-item slot
CountedFields(self) ==
    <<self.invoice_number # EmptyStr, self.invoice_date # EmptyStr,
      self.total_amount # EmptyStr, self.line_items.v # <<>>>>
    \o (IF self.vendor = Null THEN <<>>
        ELSE <<self.vendor.v.name # EmptyStr, self.vendor.v.address # EmptyStr,
               self.vendor.v.phone # EmptyStr, self.vendor.v.email # EmptyStr>>)

\* C24: the completion rate is 100 * c / t, where t counts the invoice
\* number, invoice date, total amount and line-item slot (4) plus the
\* vendor's four fields only when the record has a vendor object (8), and c
\* counts the non-empty ones; 0 <= c <= t and the rate lies within [0, 100].
C24_CompletionRate ==
    (op = "_calculate_completion_rate" /\ TypedRecord(arg)) =>
        LET counted == CountedFields(arg)
            t == Len(counted)
            c == Cardinality({i \in 1..t : counted[i]})
            rate == ret.val.v
        IN /\ ~Raised(ret)
           /\ ret.val.t = "float"
           /\ t = IF arg.vendor = Null THEN 4 ELSE 8
           /\ rate.den = t
           /\ rate.num * t = 100 * c * rate.den
           /\ 0 <= c /\ c <= t
           /\ 0 <= rate.num /\ rate.num <= 100 * rate.den

\* a record without a vendor, three of its four fields filled, scored at 75
C24_Witness ==
    /\ op = "_calculate_completion_rate"
    /\ TypedRecord(arg)
    /\ arg.vendor = Null
    /\ ~Raised(ret)
    /\ ret.val.v.num = 75 * ret.val.v.den

----------------------------------------------------------------------------
(* Session *)

\* the step was an extraction attempt that yielded a record
YieldsRecord ==
    /\ op = "process_uploaded_file"
    /\ Parses(arg.ftype, arg.clicked, arg.api_key, arg.api_response)
    /\ ~Raised(ret)
    /\ Truthy(ret.val)

\* C25: the session holds at most one record, and an attempt that yields a
\* record replaces the stored record wholesale: after it extracted_data is
\* that attempt's parse result, with no key or value carried over from the
\* earlier record.
C25_ReplacedWholesale ==
    /\ extracted_data = Unset \/ IsMap(extracted_data)
    /\ YieldsRecord =>
          /\ ret = parse_extraction_result(arg.api_response)
          /\ extracted_data = ret.val

\* a record replaced by one that lacks a key of the earlier record
C25_Witness ==
    /\ YieldsRecord
    /\ IsMap(arg.extracted_data)
    /\ arg.extracted_data # extracted_data
    /\ (DOMAIN arg.extracted_data.v) \ (DOMAIN extracted_data.v) # {}
    /\ extracted_data = ret.val

\* a new extraction attempt began: the Extract button was clicked on an image
AttemptBegan(a) == IsImage(a.ftype) /\ a.clicked

\* the attempt ended without a record: no API key, no API response, or a
\* response the parser made nothing of
EndedWithoutRecord(a, parsed) ==
    \/ ~Truthy(a.api_key)
    \/ ~Truthy(a.api_response)
    \/ ~Truthy(parsed.val)

\* C26: the record of an earlier attempt is discarded when a new attempt
\* begins: after a step in which an attempt began the session neither holds
\* nor displays the earlier record, also when the attempt ended without a
\* record (missing API key, API error or decode failure).
C26_EarlierRecordDiscarded ==
    [][(op' = "process_uploaded_file" /\ AttemptBegan(arg') /\ IsMap(extracted_data)
        /\ EndedWithoutRecord(arg', ret')) =>
          /\ extracted_data' = Unset
          /\ Displayed(processing_complete', extracted_data') = Null]_vars

\* C27: processing_complete starts false; whenever it is true extracted_data
\* is a non-empty map returned by parse_extraction_result, never None; it
\* becomes true only in a step that stores a record, and no attempt or rerun
\* resets it to false.
C27_CompleteImpliesRecord ==
    /\ ~processing_complete
    /\ [](processing_complete =>
            /\ IsMap(extracted_data)
            /\ extracted_data # EmptyMap
            /\ \E r \in SessionResponses :
                  extracted_data = parse_extraction_result(r).val)
    /\ [][/\ (~processing_complete /\ processing_complete') =>
               (op' = "process_uploaded_file" /\ extracted_data' = ret'.val)
          /\ processing_complete => processing_complete']_vars

\* a rerun after an attempt that stored a record
C27_Witness ==
    /\ op = "main"
    /\ processing_complete
    /\ IsMap(extracted_data)
    /\ ret.val = extracted_data

\* the parser fell back to the raw text of the reply
RawTextFallback(a, parsed) ==
    /\ HasText(a.api_response)
    /\ ~HasSpan(TextOf(a.api_response))
    /\ parsed.val = Map(k_raw_response :> Str(TextOf(a.api_response)))

\* the parser returned the decoded map itself after a mapping exception
UnmodifiedDecodedMap(a, parsed) ==
    /\ HasText(a.api_response)
    /\ HasSpan(TextOf(a.api_response))
    /\ LET d == json_loads(GreedySpan(TextOf(a.api_response)))
       IN ~Raised(d) /\ MappingRaises(d.val) /\ parsed = Signalled("warning", d.val)

\* C28: the degraded results of the parser, the raw-text fallback and the
\* unmodified decoded map returned after a mapping exception, are stored as
\* the current record and set processing_complete exactly as a normalized
\* record does: the session after the step is the parse result and the flag.
C28_DegradedStoredAlike ==
    /\ (/\ op = "process_uploaded_file"
        /\ Parses(arg.ftype, arg.clicked, arg.api_key, arg.api_response)
        /\ RawTextFallback(arg, ret) \/ UnmodifiedDecodedMap(arg, ret)) => YieldsRecord
    /\ YieldsRecord =>
          <<extracted_data, processing_complete>> = <<ret.val, TRUE>>

\* the decoded map stored unmodified over a stored raw-text fallback
C28_Witness ==
    /\ YieldsRecord
    /\ UnmodifiedDecodedMap(arg, ret)
    /\ IsMap(arg.extracted_data)
    /\ k_raw_response \in DOMAIN arg.extracted_data.v
    /\ <<extracted_data, processing_complete>> = <<ret.val, TRUE>>

----------------------------------------------------------------------------
(* Validation and completeness together *)

\* the messages of a list of messages
MessagesOf(errors) == {errors.v[i] : i \in 1..Len(errors.v)}

\* C29: for a record with string fields, is_complete() being true implies
\* that validate() contains neither "Invoice number is required" nor "Total
\* amount is required"; and validate() never contains both "Total amount is
\* required" and "Total amount is not a valid number".
C29_CompleteHasRequired ==
    /\ (/\ op = "validate, is_complete"
        /\ arg.self.invoice_number.t = "str"
        /\ arg.self.total_amount.t = "str"
        /\ ~Raised(ret)
        /\ Truthy(ret.val)) =>
          /\ Str(Messages.invoice_number_required) \notin MessagesOf(arg.errors)
          /\ Str(Messages.total_amount_required) \notin MessagesOf(arg.errors)
    /\ (op = "validate" /\ ~Raised(ret)) =>
          ~({Str(Messages.total_amount_required), Str(Messages.total_amount_invalid)}
              \subseteq Errors)

\* a complete record with validation messages, none of them a required field
C29_Witness ==
    /\ op = "validate, is_complete"
    /\ arg.self.invoice_number.t = "str"
    /\ arg.self.total_amount.t = "str"
    /\ ret = Ok(Bool(TRUE))
    /\ Str(Messages.total_amount_invalid) \in MessagesOf(arg.errors)

====
